---------------------------- MODULE Spec2Model ----------------------------
(***************************************************************************)
(* Model of the agent-router classification engine: the condition tree,    *)
(* the flat rule evaluator of rules.rs, the detail evaluator and the       *)
(* instruction builder of classifier.rs, and the classify /                *)
(* classify_enhanced request flows.                                        *)
(*                                                                         *)
(* The specifications share the variables:                                 *)
(*   Spec           - one request at a time through classify /             *)
(*                    classify_enhanced                                    *)
(*   SpecEval       - the two tree evaluators applied to bounded trees     *)
(*   SpecRules      - apply_rules / apply_llm_tag_rules on bounded rule    *)
(*                    lists                                                *)
(*   SpecValidate   - ClassificationInput::validate around its limits      *)
(*   SpecConfidence - is_high_confidence on its own                        *)
(*   SpecTags       - parse_tag_list on its own                            *)
(*   SpecServer     - the tool handlers of lib.rs and main.rs under        *)
(*                    concurrent calls                                     *)
(***************************************************************************)
EXTENDS Integers, Sequences, FiniteSets, TLC

VARIABLES
    pc,                 \* position of the request in its handler
    mode,               \* "classify" | "enhanced" | "none"
    input,              \* the ClassificationInput of the request in flight
    cfg,                \* the Classifier's cached startup configuration
    used,               \* the configuration resolved for the request in flight
    rule_based_agents,  \* classify: result of the fast pass
    llm_tags,           \* tags returned by identify_tags
    result,             \* the value returned to the caller
    tag_calls,          \* identify_tags calls made for the request in flight
    tags_result,        \* what identify_tags answered: "none" | "ok" | "err"
    tree,               \* SpecEval: the condition tree under evaluation
    flat,               \* SpecEval/SpecRules: output of the flat evaluator
    detail,             \* SpecEval: output of the detail evaluator
    response,           \* SpecTags: the model reply handed to parse_tag_list
    binary,             \* SpecServer: "lib" (lib.rs handler) | "main" (main.rs)
    state_lock,         \* holder of the Mutex<ServerState>, 0 when free
    classifier_cell,    \* the shared classifier: None, or Some(caller that stored it)
    cell_permit,        \* holder of the OnceCell's initialisation permit, 0 when free
    cell_stores,        \* number of times a Classifier was stored in the cell
    calls,              \* tool calls received so far
    task_pc,            \* per caller: position in the tool handler
    task_tool,          \* per caller: name of the tool called
    task_params,        \* per caller: arguments of the call
    task_trace,         \* per caller: the stages the handler went through
    task_result         \* per caller: the CallToolResult, None while running

core_vars == <<pc, mode, input, cfg, used, rule_based_agents, llm_tags, result,
               tag_calls, tags_result, tree, flat, detail, response>>

server_vars == <<binary, state_lock, classifier_cell, cell_permit, cell_stores, calls,
                 task_pc, task_tool, task_params, task_trace, task_result>>

vars == <<core_vars, server_vars>>

-----------------------------------------------------------------------------
(* Option<T>: a record, so that None and Some(x) compare in TLC *)

Some(x) == [some |-> TRUE, v |-> <<x>>]

None == [some |-> FALSE, v |-> <<>>]

Unwrap(o) == o.v[1]

Range(s) == {s[i] : i \in 1..Len(s)}

Contains(s, x) == \E i \in 1..Len(s) : s[i] = x

RECURSIVE SeqsUpTo(_, _)
SeqsUpTo(S, n) ==
    IF n = 0 THEN {<<>>}
    ELSE LET shorter == SeqsUpTo(S, n - 1)
         IN  shorter \cup {Append(s, x) : s \in {t \in shorter : Len(t) = n - 1}, x \in S}

-----------------------------------------------------------------------------
(* lib.rs / main.rs: the server state shared by the tool handlers *)

\* concurrent callers of the tool handler
NumCallers == 2

Callers == 1..NumCallers

\* RouterServerHandler::new(): ServerState::new() behind a free Mutex, the
\* classifier not yet created, no call in progress
ServerIdle ==
    /\ state_lock = 0
    /\ classifier_cell = None
    /\ cell_permit = 0
    /\ cell_stores = 0
    /\ calls = 0
    /\ task_pc = [c \in Callers |-> "idle"]
    /\ task_tool = [c \in Callers |-> ""]
    /\ task_params = [c \in Callers |-> None]
    /\ task_trace = [c \in Callers |-> <<>>]
    /\ task_result = [c \in Callers |-> None]

-----------------------------------------------------------------------------
(* The glob and regex crates, on the strings and patterns of the model.    *)
(* Each pattern is given by the set of model strings it matches; a         *)
(* pattern that does not compile is in neither table.                      *)

FileNames == {"src/auth.ts", "README.md"}

BranchNames == {"main", "feature/login"}

TaskTexts == {"fix auth bug", "  update docs\n"}

IntentTexts == {"general help", "Review before COMMIT", "open pull_request"}

AllStrings == FileNames \cup BranchNames \cup TaskTexts \cup IntentTexts \cup {""}

\* glob::Pattern::new(p) is Ok
GlobValid(p) == p \in {"*.ts", "*auth*", "*.md", ""}

\* glob::Pattern::matches with the default options ('*' crosses '/')
GlobMatches(p, s) ==
    CASE p = "*.ts"   -> s \in {"src/auth.ts"}
      [] p = "*auth*" -> s \in {"src/auth.ts", "fix auth bug"}
      [] p = "*.md"   -> s \in {"README.md"}
      [] p = ""       -> s = ""
      [] OTHER        -> FALSE

\* regex::Regex::new(p) is Ok
RegexValid(p) == p \in {"auth", "^feature/", "(?i)commit", "bug", ".*", "\\.md$"}

\* regex::Regex::is_match (unanchored search)
RegexMatches(p, s) ==
    CASE p = "auth"       -> s \in {"src/auth.ts", "fix auth bug"}
      [] p = "^feature/"  -> s \in {"feature/login"}
      [] p = "(?i)commit" -> s \in {"Review before COMMIT"}
      [] p = "bug"        -> s \in {"fix auth bug"}
      [] p = "\\.md$"     -> s \in {"README.md"}
      [] p = ".*"         -> TRUE
      [] OTHER            -> FALSE

-----------------------------------------------------------------------------
(* types.rs: Condition and RuleConditions.  One record shape for the three *)
(* variants of RuleConditions: a Single carries cond, AnyOf/AllOf carry    *)
(* children.                                                               *)

NoCond == [type |-> "none", pat |-> ""]

Cond(t, p) == [type |-> t, pat |-> p]

Single(c) == [kind |-> "Single", cond |-> c, children |-> <<>>]

AnyOf(cs) == [kind |-> "AnyOf", cond |-> NoCond, children |-> cs]

AllOf(cs) == [kind |-> "AllOf", cond |-> NoCond, children |-> cs]

Rule(c, targets) == [conditions |-> c, route_to_subagents |-> targets]

GitContext(b, ch, st) == [branch |-> b, changed_files |-> ch, staged_files |-> st]

ClassificationInput(t, i, op, af, gc, ap, rp, tp) ==
    [task |-> t, intent |-> i, original_prompt |-> op, associated_files |-> af,
     git_context |-> gc, agent_config_path |-> ap, rules_config_path |-> rp,
     llm_tags_path |-> tp]

-----------------------------------------------------------------------------
(* rules.rs: the flat (boolean) evaluator *)

\* rules.rs reads the request's prompt text as the field user_prompt; the
\* ClassificationInput of types.rs carries that text as task.
user_prompt(inp) == inp.task

\* Pattern::new(pattern).unwrap_or_else(|_| Pattern::new("").unwrap())
glob_pattern(pattern) == IF GlobValid(pattern) THEN pattern ELSE ""

evaluate_condition(condition, inp, tags) ==
    CASE condition.type = "file_pattern" ->
            /\ inp.git_context.some
            /\ \E i \in 1..Len(Unwrap(inp.git_context).changed_files) :
                  GlobMatches(glob_pattern(condition.pat),
                              Unwrap(inp.git_context).changed_files[i])
      [] condition.type = "file_regex" ->
            /\ inp.git_context.some
            /\ RegexValid(condition.pat)
            /\ \E i \in 1..Len(Unwrap(inp.git_context).changed_files) :
                  RegexMatches(condition.pat, Unwrap(inp.git_context).changed_files[i])
      [] condition.type = "prompt_regex" ->
            RegexValid(condition.pat) /\ RegexMatches(condition.pat, user_prompt(inp))
      [] condition.type = "branch_regex" ->
            /\ inp.git_context.some
            /\ RegexValid(condition.pat)
            /\ RegexMatches(condition.pat, Unwrap(inp.git_context).branch)
      [] condition.type = "llm_tag" -> Contains(tags, condition.pat)

RECURSIVE evaluate_conditions(_, _, _)
RECURSIVE iter_any(_, _, _, _)
RECURSIVE iter_all(_, _, _, _)

\* Iterator::any over children[i..]: stops at the first child that matches
iter_any(children, i, inp, tags) ==
    IF i > Len(children) THEN FALSE
    ELSE IF evaluate_conditions(children[i], inp, tags) THEN TRUE
    ELSE iter_any(children, i + 1, inp, tags)

\* Iterator::all over children[i..]: stops at the first child that fails
iter_all(children, i, inp, tags) ==
    IF i > Len(children) THEN TRUE
    ELSE IF ~evaluate_conditions(children[i], inp, tags) THEN FALSE
    ELSE iter_all(children, i + 1, inp, tags)

evaluate_conditions(conditions, inp, tags) ==
    CASE conditions.kind = "Single" -> evaluate_condition(conditions.cond, inp, tags)
      [] conditions.kind = "AnyOf"  -> iter_any(conditions.children, 1, inp, tags)
      [] conditions.kind = "AllOf"  -> iter_all(conditions.children, 1, inp, tags)

RECURSIVE rule_contains_llm_tags(_)
rule_contains_llm_tags(conditions) ==
    CASE conditions.kind = "Single" -> conditions.cond.type = "llm_tag"
      [] OTHER -> \E i \in 1..Len(conditions.children) :
                     rule_contains_llm_tags(conditions.children[i])

\* push_new without the contains check
RECURSIVE push_all(_, _, _)
push_all(agents, targets, i) ==
    IF i > Len(targets) THEN agents
    ELSE push_all(Append(agents, targets[i]), targets, i + 1)

\* for agent in targets { if !agents.contains(agent) { agents.push(agent) } }
RECURSIVE push_new(_, _, _)
push_new(agents, targets, i) ==
    IF i > Len(targets) THEN agents
    ELSE push_new(IF Contains(agents, targets[i]) THEN agents
                  ELSE Append(agents, targets[i]),
                  targets, i + 1)

RECURSIVE apply_rules_from(_, _, _, _)
apply_rules_from(inp, rules, i, agents) ==
    IF i > Len(rules) THEN agents
    ELSE apply_rules_from(inp, rules, i + 1,
            IF evaluate_conditions(rules[i].conditions, inp, <<>>)
            THEN push_new(agents, rules[i].route_to_subagents, 1)
            ELSE agents)

apply_rules(inp, rules_config) == apply_rules_from(inp, rules_config, 1, <<>>)

\* ClassificationInput { user_prompt: "", trigger: "", git_context: None, .. }
dummy_input == ClassificationInput("", "", None, None, None, None, None, None)

RECURSIVE apply_llm_tag_rules_from(_, _, _, _)
apply_llm_tag_rules_from(tags, rules, i, agents) ==
    IF i > Len(rules) THEN agents
    ELSE apply_llm_tag_rules_from(tags, rules, i + 1,
            IF /\ rule_contains_llm_tags(rules[i].conditions)
               /\ evaluate_conditions(rules[i].conditions, dummy_input, tags)
            THEN push_new(agents, rules[i].route_to_subagents, 1)
            ELSE agents)

\* a tag pass that runs before identify_tags has answered: it sees no tags
apply_llm_tag_rules_before_tags(tags, rules_config) == apply_llm_tag_rules_from(<<>>, rules_config, 1, <<>>)

apply_llm_tag_rules(tags, rules_config) ==
    apply_llm_tag_rules_from(tags, rules_config, 1, <<>>)

-----------------------------------------------------------------------------
(* classifier.rs: the detail evaluator.  Besides the Option<RuleMatchInfo>  *)
(* it returns, the model records in ev the leaves it evaluated, in order.   *)

RuleMatchInfo(t, v) == [trigger_type |-> t, trigger_value |-> v]

NoMatch == RuleMatchInfo("none", "")

\* rules::evaluate_file_pattern (section 4.1: the file set is associated_files)
evaluate_file_pattern(pattern, inp) ==
    /\ inp.associated_files.some
    /\ GlobValid(pattern)
    /\ \E i \in 1..Len(Unwrap(inp.associated_files)) :
          GlobMatches(pattern, Unwrap(inp.associated_files)[i])

\* rules::evaluate_file_regex (section 4.1)
evaluate_file_regex(pattern, inp) ==
    /\ inp.associated_files.some
    /\ RegexValid(pattern)
    /\ \E i \in 1..Len(Unwrap(inp.associated_files)) :
          RegexMatches(pattern, Unwrap(inp.associated_files)[i])

\* rules::evaluate_prompt_regex (section 4.1: task, intent or original_prompt)
evaluate_prompt_regex(pattern, inp) ==
    /\ RegexValid(pattern)
    /\ \/ RegexMatches(pattern, inp.task)
       \/ RegexMatches(pattern, inp.intent)
       \/ /\ inp.original_prompt.some
          /\ RegexMatches(pattern, Unwrap(inp.original_prompt))

\* rules::evaluate_branch_regex (section 4.1)
evaluate_branch_regex(pattern, inp) ==
    /\ inp.git_context.some
    /\ RegexValid(pattern)
    /\ RegexMatches(pattern, Unwrap(inp.git_context).branch)

evaluate_condition_with_details(condition, inp, tags) ==
    LET hit == CASE condition.type = "file_pattern" ->
                        evaluate_file_pattern(condition.pat, inp)
                 [] condition.type = "file_regex" ->
                        evaluate_file_regex(condition.pat, inp)
                 [] condition.type = "prompt_regex" ->
                        evaluate_prompt_regex(condition.pat, inp)
                 [] condition.type = "branch_regex" ->
                        evaluate_branch_regex(condition.pat, inp)
                 [] condition.type = "llm_tag" -> Contains(tags, condition.pat)
    IN  IF hit THEN RuleMatchInfo(condition.type, condition.pat) ELSE NoMatch

RECURSIVE evaluate_rule_with_details(_, _, _)
RECURSIVE any_of_loop(_, _, _, _, _)
RECURSIVE all_of_loop(_, _, _, _, _, _)
RECURSIVE all_of_loop_last_match(_, _, _, _, _, _)

\* any_of_loop without the early return: the last matching child wins
any_of_loop_no_return(children, i, inp, tags, ev) ==
    LET rs == [j \in 1..Len(children) |->
                  evaluate_rule_with_details(children[j], inp, tags)]
        hits == {j \in 1..Len(children) : rs[j].m # NoMatch}
        all_ev[j \in 0..Len(children)] == IF j = 0 THEN ev ELSE all_ev[j - 1] \o rs[j].ev
    IN  [m  |-> IF hits = {} THEN NoMatch
                ELSE rs[CHOOSE j \in hits : \A h \in hits : h <= j].m,
         ev |-> all_ev[Len(children)]]

\* for c in any_of { if let Some(info) = .. { return Some(info); } }  None
any_of_loop(children, i, inp, tags, ev) ==
    IF i > Len(children) THEN [m |-> NoMatch, ev |-> ev]
    ELSE LET r == evaluate_rule_with_details(children[i], inp, tags)
         IN  IF r.m # NoMatch THEN [m |-> r.m, ev |-> ev \o r.ev]
             ELSE any_of_loop(children, i + 1, inp, tags, ev \o r.ev)

\* all_of_loop that overwrites first_match with every matching child
all_of_loop_last_match(children, i, inp, tags, first_match, ev) ==
    IF i > Len(children) THEN [m |-> first_match, ev |-> ev]
    ELSE LET r == evaluate_rule_with_details(children[i], inp, tags)
         IN  IF r.m = NoMatch THEN [m |-> NoMatch, ev |-> ev \o r.ev]
             ELSE all_of_loop_last_match(children, i + 1, inp, tags, r.m, ev \o r.ev)

\* let mut first_match = None; for c in all_of { .. None => return None }
all_of_loop(children, i, inp, tags, first_match, ev) ==
    IF i > Len(children) THEN [m |-> first_match, ev |-> ev]
    ELSE LET r == evaluate_rule_with_details(children[i], inp, tags)
         IN  IF r.m = NoMatch THEN [m |-> NoMatch, ev |-> ev \o r.ev]
             ELSE all_of_loop(children, i + 1, inp, tags,
                              IF first_match = NoMatch THEN r.m ELSE first_match,
                              ev \o r.ev)

evaluate_rule_with_details(conditions, inp, tags) ==
    CASE conditions.kind = "Single" ->
            [m  |-> evaluate_condition_with_details(conditions.cond, inp, tags),
             ev |-> <<conditions.cond>>]
      [] conditions.kind = "AnyOf" ->
            any_of_loop(conditions.children, 1, inp, tags, <<>>)
      [] conditions.kind = "AllOf" ->
            all_of_loop(conditions.children, 1, inp, tags, NoMatch, <<>>)

-----------------------------------------------------------------------------
(* SpecEval: both evaluators applied to every condition tree of at most    *)
(* MaxNodes nodes.  types.rs puts no lower bound on the length of any_of / *)
(* all_of, so a node may have no children.                                 *)

MaxNodes == 4

EvalLeaves == {Cond("file_pattern", "*.ts"), Cond("file_regex", "auth"),
               Cond("llm_tag", "security"), Cond("branch_regex", "^feature/")}

RECURSIVE TreesOfSize(_)
RECURSIVE ForestsOfSize(_)

TreesOfSize(n) ==
    (IF n = 1 THEN {Single(c) : c \in EvalLeaves} ELSE {})
    \cup {AnyOf(f) : f \in ForestsOfSize(n - 1)}
    \cup {AllOf(f) : f \in ForestsOfSize(n - 1)}

ForestsOfSize(n) ==
    IF n = 0 THEN {<<>>}
    ELSE UNION {{<<t>> \o f : t \in TreesOfSize(k), f \in ForestsOfSize(n - k)} :
                k \in 1..n}

Trees == UNION {TreesOfSize(n) : n \in 1..MaxNodes}

EvalFiles == {None, Some(<<>>), Some(<<"src/auth.ts">>), Some(<<"README.md">>)}

EvalGit == {None,
            Some(GitContext("feature/login", <<>>, <<>>)),
            Some(GitContext("main", <<"src/auth.ts">>, <<"README.md">>))}

EvalInputs ==
    {ClassificationInput("fix auth bug", "general help", None, af, gc, None, None, None) :
        af \in EvalFiles, gc \in EvalGit}

EvalTags == {<<>>, <<"security">>}

\* Classifier::new: no agents, no tags, no rules
NoConfig == [agents |-> <<>>, tags |-> <<>>, rules |-> <<>>]

InitEval ==
    /\ binary = "lib"
    /\ ServerIdle
    /\ response = <<>>
    /\ pc = "eval_flat"
    /\ mode = "none"
    /\ tree \in Trees
    /\ input \in EvalInputs
    /\ llm_tags \in EvalTags
    /\ flat = None
    /\ detail = None
    /\ cfg = NoConfig
    /\ used = None
    /\ rule_based_agents = <<>>
    /\ result = None
    /\ tag_calls = 0
    /\ tags_result = "none"

\* rules::evaluate_conditions(&rule.conditions, input, llm_tags)
EvalFlat ==
    /\ UNCHANGED <<server_vars, response>>
    /\ pc = "eval_flat"
    /\ flat' = Some(evaluate_conditions(tree, input, llm_tags))
    /\ pc' = "eval_detail"
    /\ UNCHANGED <<mode, input, cfg, used, rule_based_agents, llm_tags, result,
                   tag_calls, tags_result, tree, detail>>

\* self.evaluate_rule_with_details(&rule.conditions, input, llm_tags)
EvalDetail ==
    /\ UNCHANGED <<server_vars, response>>
    /\ pc = "eval_detail"
    /\ detail' = Some(evaluate_rule_with_details(tree, input, llm_tags))
    /\ pc' = "eval_done"
    /\ UNCHANGED <<mode, input, cfg, used, rule_based_agents, llm_tags, result,
                   tag_calls, tags_result, tree, flat>>

NextEval == EvalFlat \/ EvalDetail

SpecEval == InitEval /\ [][NextEval]_vars

-----------------------------------------------------------------------------
(* Properties of the evaluators (SpecEval) *)

\* results of the detail evaluator on the children of the tree in the state
ChildDetail(i) == evaluate_rule_with_details(tree.children[i], input, llm_tags)

ChildFlat(i) == evaluate_conditions(tree.children[i], input, llm_tags)

\* the leaves evaluated by the first k children, in order
RECURSIVE EvUpTo(_)
EvUpTo(k) == IF k = 0 THEN <<>> ELSE EvUpTo(k - 1) \o ChildDetail(k).ev

FirstIn(S) == CHOOSE k \in S : \A h \in S : k <= h

NoFilesDeclared(inp) ==
    ~inp.associated_files.some \/ Len(Unwrap(inp.associated_files)) = 0

\* C4: a FilePattern or FileRegex leaf never matches when associated_files
\* is absent or empty, whatever the git context holds, in the flat evaluator
\* and in the detail evaluator.
C4_FileLeafNeedsAssociatedFiles ==
    (/\ pc = "eval_done"
     /\ tree.kind = "Single"
     /\ tree.cond.type \in {"file_pattern", "file_regex"}
     /\ NoFilesDeclared(input))
    => (~Unwrap(flat) /\ Unwrap(detail).m = NoMatch)

\* C7: an AnyOf node matches iff at least one child matches and an AllOf
\* node matches iff all children match, in the flat evaluator and in the
\* detail evaluator.
C7_StandardBooleanSemantics ==
    (pc = "eval_done" /\ tree.kind # "Single") =>
        LET n == Len(tree.children)
        IN  /\ tree.kind = "AnyOf" =>
                 /\ Unwrap(flat) <=> (\E i \in 1..n : ChildFlat(i))
                 /\ (Unwrap(detail).m # NoMatch) <=>
                        (\E i \in 1..n : ChildDetail(i).m # NoMatch)
            /\ tree.kind = "AllOf" =>
                 /\ Unwrap(flat) <=> (\A i \in 1..n : ChildFlat(i))
                 /\ (Unwrap(detail).m # NoMatch) <=>
                        (\A i \in 1..n : ChildDetail(i).m # NoMatch)

\* C8: in the detail evaluator an AnyOf node returns the match info of the
\* first child (in listed order) that matches and evaluates no later child;
\* it returns no match iff no child matches.
C8_AnyOfFirstMatch ==
    (pc = "eval_done" /\ tree.kind = "AnyOf") =>
        LET n    == Len(tree.children)
            hits == {i \in 1..n : ChildDetail(i).m # NoMatch}
        IN  IF hits = {}
            THEN Unwrap(detail).m = NoMatch /\ Unwrap(detail).ev = EvUpTo(n)
            ELSE /\ Unwrap(detail).m = ChildDetail(FirstIn(hits)).m
                 /\ Unwrap(detail).ev = EvUpTo(FirstIn(hits))

\* an AnyOf of three children: the first fails, the second matches and the
\* third, which would match too, is not evaluated
C8_Witness ==
    /\ pc = "eval_done"
    /\ tree.kind = "AnyOf"
    /\ Len(tree.children) = 3
    /\ ChildDetail(1).m = NoMatch
    /\ ChildDetail(2).m # NoMatch
    /\ ChildDetail(3).m # NoMatch
    /\ ChildDetail(3).m # ChildDetail(2).m
    /\ Unwrap(detail).m = ChildDetail(2).m
    /\ Len(Unwrap(detail).ev) = 2

\* C9: in the detail evaluator an AllOf node returns no match as soon as a
\* child fails (later children are not evaluated) and, when all children
\* match, the match info of the first child in listed order.
C9_AllOfFirstChild ==
    (pc = "eval_done" /\ tree.kind = "AllOf") =>
        LET n     == Len(tree.children)
            fails == {i \in 1..n : ChildDetail(i).m = NoMatch}
        IN  IF fails # {}
            THEN /\ Unwrap(detail).m = NoMatch
                 /\ Unwrap(detail).ev = EvUpTo(FirstIn(fails))
            ELSE n > 0 => Unwrap(detail).m = ChildDetail(1).m

\* AllOf[FilePattern, LlmTag], both matching: the trigger is the file leaf
C9_Witness ==
    /\ pc = "eval_done"
    /\ tree = AllOf(<<Single(Cond("file_pattern", "*.ts")),
                      Single(Cond("llm_tag", "security"))>>)
    /\ Unwrap(detail).m = RuleMatchInfo("file_pattern", "*.ts")

-----------------------------------------------------------------------------
(* SpecRules: apply_rules and apply_llm_tag_rules on every rule list of at *)
(* most MaxRules rules drawn from RuleChoices.  Nothing in the load path   *)
(* rejects a repeated or an empty route_to_subagents.                      *)

MaxRules == 3

RuleChoices ==
    {Rule(Single(Cond("file_pattern", "*.ts")), <<"ts-reviewer">>),
     Rule(Single(Cond("file_regex", "auth")), <<"security-auditor", "ts-reviewer">>),
     Rule(Single(Cond("branch_regex", "^feature/")), <<"ts-reviewer", "ts-reviewer">>),
     Rule(Single(Cond("prompt_regex", "bug")), <<"docs-writer", "security-auditor">>),
     Rule(Single(Cond("llm_tag", "security")), <<"security-auditor">>),
     Rule(Single(Cond("llm_tag", "testing")), <<"ts-reviewer", "security-auditor">>),
     Rule(AnyOf(<<Single(Cond("llm_tag", "docs")), Single(Cond("prompt_regex", ".*"))>>),
          <<"docs-writer", "docs-writer">>),
     Rule(AllOf(<<Single(Cond("llm_tag", "security")),
                  Single(Cond("file_pattern", "*auth*"))>>), <<>>),
     Rule(AllOf(<<Single(Cond("llm_tag", "security")),
                  Single(Cond("prompt_regex", ".*"))>>), <<"docs-writer">>),
     Rule(AnyOf(<<Single(Cond("file_pattern", "[invalid")),
                  Single(Cond("file_regex", "(unclosed")),
                  Single(Cond("prompt_regex", "(unclosed")),
                  Single(Cond("branch_regex", "(unclosed"))>>), <<"test-runner">>)}

RuleLists == SeqsUpTo(RuleChoices, MaxRules)

RulesInputs ==
    {ClassificationInput(t, "general help", None, None, gc, None, None, None) :
        t \in TaskTexts,
        gc \in {None, Some(GitContext("feature/login", <<"src/auth.ts">>, <<>>)),
                Some(GitContext("main", <<"">>, <<>>))}}

RulesTags == {<<>>, <<"security">>, <<"testing", "security">>, <<"docs", "testing">>}

InitRules ==
    /\ binary = "lib"
    /\ ServerIdle
    /\ response = <<>>
    /\ pc = "apply_rules"
    /\ mode = "none"
    /\ tree = AllOf(<<>>)
    /\ input \in RulesInputs
    /\ llm_tags \in RulesTags
    /\ flat = None
    /\ detail = None
    /\ cfg \in {[agents |-> <<>>, tags |-> <<>>, rules |-> rs] : rs \in RuleLists}
    /\ used = None
    /\ rule_based_agents = <<>>
    /\ result = None
    /\ tag_calls = 0
    /\ tags_result = "none"

\* rules::apply_rules(input, rules_config)
ApplyRules ==
    /\ UNCHANGED <<server_vars, response>>
    /\ pc = "apply_rules"
    /\ flat' = Some(apply_rules(input, cfg.rules))
    /\ pc' = "apply_llm_tag_rules"
    /\ UNCHANGED <<mode, input, cfg, used, rule_based_agents, llm_tags, result,
                   tag_calls, tags_result, tree, detail>>

\* rules::apply_llm_tag_rules(&llm_tags, rules_config)
ApplyLlmTagRules ==
    /\ UNCHANGED <<server_vars, response>>
    /\ pc = "apply_llm_tag_rules"
    /\ detail' = Some(apply_llm_tag_rules(llm_tags, cfg.rules))
    /\ pc' = "rules_done"
    /\ UNCHANGED <<mode, input, cfg, used, rule_based_agents, llm_tags, result,
                   tag_calls, tags_result, tree, flat>>

NextRules == ApplyRules \/ ApplyLlmTagRules

SpecRules == InitRules /\ [][NextRules]_vars

\* the targets of the rules that Hit selects, concatenated in configuration order
RECURSIVE TargetsOf(_, _, _)
TargetsOf(rules, Hit(_), i) ==
    IF i > Len(rules) THEN <<>>
    ELSE (IF Hit(rules[i]) THEN rules[i].route_to_subagents ELSE <<>>)
         \o TargetsOf(rules, Hit, i + 1)

FirstIndex(s, x) == FirstIn({i \in 1..Len(s) : s[i] = x})

\* out holds each name of seen once, ordered by first appearance in seen
FirstSeenOrder(out, seen) ==
    /\ \A i, j \in 1..Len(out) : i # j => out[i] # out[j]
    /\ Range(out) = Range(seen)
    /\ \A i, j \in 1..Len(out) :
          i < j => FirstIndex(seen, out[i]) < FirstIndex(seen, out[j])

FastHit(rule) == evaluate_conditions(rule.conditions, input, <<>>)

TagHit(rule) ==
    /\ rule_contains_llm_tags(rule.conditions)
    /\ evaluate_conditions(rule.conditions, dummy_input, llm_tags)

\* C6: apply_rules and apply_llm_tag_rules return a list without duplicate
\* agent names, in first-seen order over the rules in configuration order
\* and the targets of a rule in route_to_subagents order.
C6_NoDuplicatesFirstSeen ==
    pc = "rules_done" =>
        /\ FirstSeenOrder(Unwrap(flat), TargetsOf(cfg.rules, FastHit, 1))
        /\ FirstSeenOrder(Unwrap(detail), TargetsOf(cfg.rules, TagHit, 1))

\* both passes met an agent a second time and kept its first position
C6_Witness ==
    /\ pc = "rules_done"
    /\ Len(Unwrap(flat)) >= 2
    /\ Len(TargetsOf(cfg.rules, FastHit, 1)) > Len(Unwrap(flat))
    /\ Len(Unwrap(detail)) >= 2
    /\ Len(TargetsOf(cfg.rules, TagHit, 1)) > Len(Unwrap(detail))

-----------------------------------------------------------------------------
(* types.rs: ClassificationInput::validate.  ByteLen is str::len on the    *)
(* strings of the model; LongText stands for a text of 10001 bytes.        *)

MAX_PROMPT_LENGTH == 10000

MAX_FILES_COUNT == 100

MAX_FILE_PATH_LENGTH == 1000

LongText == "<text of 10001 bytes>"

\* texts, paths and branch names at a limit of validate and one byte over it
Text10000 == "<text of 10000 bytes>"

Path1000 == "<path of 1000 bytes>"

Path1001 == "<path of 1001 bytes>"

Branch200 == "<branch of 200 bytes>"

Branch201 == "<branch of 201 bytes>"

ByteLen(s) ==
    CASE s = LongText               -> 10001
      [] s = Text10000              -> 10000
      [] s = Path1001               -> 1001
      [] s = Path1000               -> 1000
      [] s = Branch201              -> 201
      [] s = Branch200              -> 200
      [] s = ""                     -> 0
      [] s = "main"                 -> 4
      [] s = "README.md"            -> 9
      [] s = "src/auth.ts"          -> 11
      [] s = "custom.json"          -> 11
      [] s = "  update docs\n"     -> 14
      [] s = "fix auth bug"         -> 12
      [] s = "general help"         -> 12
      [] s = "feature/login"        -> 13
      [] s = "open pull_request"    -> 17
      [] s = "Review before COMMIT" -> 20

\* validate without the limit on the task
validate_no_task_limit(inp) ==
    /\ ByteLen(inp.intent) <= MAX_PROMPT_LENGTH
    /\ inp.original_prompt.some =>
            ByteLen(Unwrap(inp.original_prompt)) <= MAX_PROMPT_LENGTH

\* validate with `total_files >= MAX_FILES_COUNT`: a list at the limit is refused
validate_rejects_full_list(inp) ==
    /\ ByteLen(inp.task) <= MAX_PROMPT_LENGTH
    /\ ByteLen(inp.intent) <= MAX_PROMPT_LENGTH
    /\ inp.original_prompt.some =>
            ByteLen(Unwrap(inp.original_prompt)) <= MAX_PROMPT_LENGTH
    /\ inp.associated_files.some =>
          LET files == Unwrap(inp.associated_files)
          IN  /\ Len(files) <= MAX_FILES_COUNT
              /\ \A i \in 1..Len(files) : ByteLen(files[i]) <= MAX_FILE_PATH_LENGTH
    /\ inp.git_context.some =>
          LET ctx == Unwrap(inp.git_context)
          IN  /\ Len(ctx.changed_files) + Len(ctx.staged_files) < MAX_FILES_COUNT
              /\ \A i \in 1..Len(ctx.changed_files) :
                    ByteLen(ctx.changed_files[i]) <= MAX_FILE_PATH_LENGTH
              /\ \A i \in 1..Len(ctx.staged_files) :
                    ByteLen(ctx.staged_files[i]) <= MAX_FILE_PATH_LENGTH
              /\ ByteLen(ctx.branch) <= 200
    /\ inp.agent_config_path.some =>
            ByteLen(Unwrap(inp.agent_config_path)) <= MAX_FILE_PATH_LENGTH
    /\ inp.rules_config_path.some =>
            ByteLen(Unwrap(inp.rules_config_path)) <= MAX_FILE_PATH_LENGTH
    /\ inp.llm_tags_path.some =>
            ByteLen(Unwrap(inp.llm_tags_path)) <= MAX_FILE_PATH_LENGTH

validate(inp) ==
    /\ ByteLen(inp.task) <= MAX_PROMPT_LENGTH
    /\ ByteLen(inp.intent) <= MAX_PROMPT_LENGTH
    /\ inp.original_prompt.some =>
            ByteLen(Unwrap(inp.original_prompt)) <= MAX_PROMPT_LENGTH
    /\ inp.associated_files.some =>
          LET files == Unwrap(inp.associated_files)
          IN  /\ Len(files) <= MAX_FILES_COUNT
              /\ \A i \in 1..Len(files) : ByteLen(files[i]) <= MAX_FILE_PATH_LENGTH
    /\ inp.git_context.some =>
          LET ctx == Unwrap(inp.git_context)
          IN  /\ Len(ctx.changed_files) + Len(ctx.staged_files) <= MAX_FILES_COUNT
              /\ \A i \in 1..Len(ctx.changed_files) :
                    ByteLen(ctx.changed_files[i]) <= MAX_FILE_PATH_LENGTH
              /\ \A i \in 1..Len(ctx.staged_files) :
                    ByteLen(ctx.staged_files[i]) <= MAX_FILE_PATH_LENGTH
              /\ ByteLen(ctx.branch) <= 200
    /\ inp.agent_config_path.some =>
            ByteLen(Unwrap(inp.agent_config_path)) <= MAX_FILE_PATH_LENGTH
    /\ inp.rules_config_path.some =>
            ByteLen(Unwrap(inp.rules_config_path)) <= MAX_FILE_PATH_LENGTH
    /\ inp.llm_tags_path.some =>
            ByteLen(Unwrap(inp.llm_tags_path)) <= MAX_FILE_PATH_LENGTH

-----------------------------------------------------------------------------
(* classifier.rs: is_high_confidence *)

\* str::to_lowercase on the strings of the model
to_lowercase(s) ==
    CASE s = "Review before COMMIT" -> "review before commit"
      [] s = "Open PULL_REQUEST"    -> "open pull_request"
      [] s = "Security"             -> "security"
      [] OTHER -> s

\* str::contains on the lower-cased intents of the model
str_contains(s, sub) ==
    CASE sub = "commit"       -> s \in {"review before commit", "recommit all"}
      [] sub = "pull_request" -> s \in {"open pull_request"}
      [] OTHER                -> FALSE

\* is_high_confidence that looks at associated_files only
is_high_confidence_files_only(agents, inp) ==
    /\ inp.associated_files.some
    /\ Len(Unwrap(inp.associated_files)) # 0

\* is_high_confidence that also counts the staged files of the git context
is_high_confidence_with_staged(agents, inp) ==
    \/ inp.associated_files.some /\ Len(Unwrap(inp.associated_files)) # 0
    \/ /\ inp.git_context.some
       /\ Len(Unwrap(inp.git_context).changed_files) + Len(Unwrap(inp.git_context).staged_files) # 0
    \/ str_contains(to_lowercase(inp.intent), "commit")
    \/ str_contains(to_lowercase(inp.intent), "pull_request")

is_high_confidence(agents, inp) ==
    LET has_associated_files ==
            inp.associated_files.some /\ Len(Unwrap(inp.associated_files)) # 0
        has_git_files ==
            inp.git_context.some /\ Len(Unwrap(inp.git_context).changed_files) # 0
        intent_lower == to_lowercase(inp.intent)
        has_lifecycle_intent ==
            str_contains(intent_lower, "commit") \/ str_contains(intent_lower, "pull_request")
    IN  has_associated_files \/ has_git_files \/ has_lifecycle_intent

-----------------------------------------------------------------------------
(* model_manager.rs: identify_tags *)

\* sanitize_input: trims every line, drops the empty ones and joins the rest
\* with a single space
sanitize_input(text) ==
    CASE text = "  update docs\n" -> "update docs"
      [] OTHER -> text

\* the interpolated parts of the prompt; format! keeps them apart
build_tagging_prompt(inp, tag_config) ==
    [task  |-> sanitize_input(inp.task),
     intent |-> sanitize_input(inp.intent),
     original_prompt |->
        IF inp.original_prompt.some
        THEN Some(sanitize_input(Unwrap(inp.original_prompt))) ELSE None,
     changed_files |->
        IF inp.associated_files.some
        THEN IF Len(Unwrap(inp.associated_files)) # 0
             THEN [i \in 1..Len(Unwrap(inp.associated_files)) |->
                      sanitize_input(Unwrap(inp.associated_files)[i])]
             ELSE <<"none">>
        ELSE IF inp.git_context.some
             THEN [i \in 1..Len(Unwrap(inp.git_context).changed_files) |->
                      sanitize_input(Unwrap(inp.git_context).changed_files[i])]
             ELSE <<"none">>,
     tag_list |-> tag_config]

\* A model reply is a sequence of tokens: a maximal run of digits (Num) or a
\* word between them (Word).
Num(n) == [digits |-> TRUE, n |-> n, w |-> ""]

Word(w) == [digits |-> FALSE, n |-> 0, w |-> w]

RECURSIVE parse_numbers(_, _, _, _)
parse_numbers(reply, tag_names, i, found_tags) ==
    IF i > Len(reply) THEN found_tags
    ELSE LET num == reply[i].n
         IN  parse_numbers(reply, tag_names, i + 1,
                IF /\ reply[i].digits
                   /\ num > 0 /\ num <= Len(tag_names)
                   /\ ~Contains(found_tags, tag_names[num])
                THEN Append(found_tags, tag_names[num])
                ELSE found_tags)

\* str::contains on the lower-cased reply: the empty name is contained in
\* every reply, the empty one included; a name of digits is contained in a
\* number that has them; a word contains the names the table gives it
response_contains(reply, name) ==
    \/ name = ""
    \/ \E k \in 1..Len(reply) :
          IF reply[k].digits
          THEN name = "0" /\ reply[k].n = 0
          ELSE \/ to_lowercase(reply[k].w) = name
               \/ to_lowercase(reply[k].w) \in {"insecurity", " security"} /\ name = "security"

RECURSIVE scan_names(_, _, _, _)
scan_names(reply, tag_names, i, found_tags) ==
    IF i > Len(tag_names) THEN found_tags
    ELSE scan_names(reply, tag_names, i + 1,
            IF /\ response_contains(reply, to_lowercase(tag_names[i]))
               /\ ~Contains(found_tags, tag_names[i])
            THEN Append(found_tags, tag_names[i])
            ELSE found_tags)

parse_tag_list(reply, tag_config) ==
    LET tag_names  == tag_config
        found_tags == parse_numbers(reply, tag_names, 1, <<>>)
    IN  IF found_tags = <<>> THEN scan_names(reply, tag_names, 1, <<>>)
        ELSE found_tags

-----------------------------------------------------------------------------
(* Configurations.  A configuration is [agents, tags, rules]: the agent    *)
(* directory (UserConfig), the tag names (LlmTagConfig) and the rule list  *)
(* (RulesConfig).                                                          *)

AgentDefinition(n, d, ins, p) ==
    [name |-> n, description |-> d, instructions |-> ins, priority |-> p]

\* the configuration Classifier::initialize caches
StartupConfig ==
    [agents |-> <<AgentDefinition("security-auditor", "audits security", Some("check auth"), 90),
                  AgentDefinition("ts-reviewer", "reviews TypeScript", None, 50),
                  AgentDefinition("docs-writer", "writes docs", None, 0)>>,
     tags   |-> <<"security", "testing">>,
     rules  |-> <<Rule(AllOf(<<Single(Cond("file_pattern", "*auth*")),
                               Single(Cond("llm_tag", "security"))>>),
                       <<"security-auditor">>),
                  Rule(Single(Cond("file_pattern", "*.ts")), <<"ts-reviewer">>),
                  Rule(Single(Cond("prompt_regex", "bug")),
                       <<"docs-writer", "ts-reviewer">>),
                  Rule(AnyOf(<<Single(Cond("llm_tag", "testing")),
                               Single(Cond("branch_regex", "^feature/"))>>),
                       <<"test-runner", "ts-reviewer">>)>>]

\* what load_user_config / load_llm_tag_config / load_rules_config can read
\* from a request's override path
OverrideAgents ==
    {<<AgentDefinition("ts-reviewer", "custom reviewer", None, 100)>>,
     <<AgentDefinition("docs-writer", "custom writer", Some("write docs"), 10),
       AgentDefinition("ts-reviewer", "custom reviewer", None, 100)>>}

OverrideTags == {<<"docs", "security">>}

OverrideRules ==
    {<<>>,
     <<Rule(Single(Cond("llm_tag", "security")), <<"security-auditor", "ts-reviewer">>),
       Rule(Single(Cond("file_regex", "\\.md$")), <<"docs-writer">>)>>,
     <<Rule(AllOf(<<Single(Cond("llm_tag", "security")),
                    Single(Cond("branch_regex", "^feature/"))>>),
            <<"security-auditor">>)>>}

\* the load of one configuration: "error" or the configuration to use
LoadOutcomes(path, cached, loadable) ==
    IF path.some THEN {[ok |-> FALSE, v |-> <<>>]} \cup
                      {[ok |-> TRUE, v |-> c] : c \in loadable}
    ELSE {[ok |-> TRUE, v |-> cached]}

\* the three loads at the head of classify / classify_enhanced, in order:
\* the first load that fails ends the request
ResolveOutcomes(inp, config) ==
    LET A == LoadOutcomes(inp.agent_config_path, config.agents, OverrideAgents)
        T == LoadOutcomes(inp.llm_tags_path, config.tags, OverrideTags)
        R == LoadOutcomes(inp.rules_config_path, config.rules, OverrideRules)
        Fail(e) == [ok |-> FALSE, error |-> e, config |-> NoConfig]
    IN  {Fail("agent_config") : a \in {x \in A : ~x.ok}}
        \cup {Fail("llm_tags_config") : a \in {x \in A : x.ok}, t \in {x \in T : ~x.ok}}
        \cup {Fail("rules_config") :
                 a \in {x \in A : x.ok}, t \in {x \in T : x.ok}, r \in {x \in R : ~x.ok}}
        \cup {[ok |-> TRUE, error |-> "",
               config |-> [agents |-> a.v, tags |-> t.v, rules |-> r.v]] :
                 a \in {x \in A : x.ok}, t \in {x \in T : x.ok}, r \in {x \in R : x.ok}}

-----------------------------------------------------------------------------
(* classifier.rs: the instruction builder *)

file_matches_condition(condition, file) ==
    CASE condition.type = "file_pattern" ->
            GlobValid(condition.pat) /\ GlobMatches(condition.pat, file)
      [] condition.type = "file_regex" ->
            RegexValid(condition.pat) /\ RegexMatches(condition.pat, file)
      [] OTHER -> FALSE

RECURSIVE file_matches_conditions(_, _)
file_matches_conditions(conditions, file) ==
    CASE conditions.kind = "Single" -> file_matches_condition(conditions.cond, file)
      [] conditions.kind = "AnyOf" ->
            \E i \in 1..Len(conditions.children) :
                file_matches_conditions(conditions.children[i], file)
      [] conditions.kind = "AllOf" ->
            \A i \in 1..Len(conditions.children) :
                file_matches_conditions(conditions.children[i], file)

\* find_matched_files without the fallback to the whole list
find_matched_files_no_fallback(conditions, files) ==
    SelectSeq(files, LAMBDA f : file_matches_conditions(conditions, f))

find_matched_files(conditions, files) ==
    LET matched == SelectSeq(files, LAMBDA f : file_matches_conditions(conditions, f))
    IN  IF matched = <<>> THEN files ELSE matched

\* the confidence of an instruction, with the two values exchanged
confidence_of_swapped(match_info) ==
    IF match_info.trigger_type = "llm_tag" THEN 100 ELSE 85

\* let confidence = if match_info.trigger_type == "llm_tag" { 85 } else { 100 }
confidence_of(match_info) ==
    IF match_info.trigger_type = "llm_tag" THEN 85 ELSE 100

Instruction(match_info, agent, matched_files) ==
    [trigger |-> [name |-> match_info.trigger_type,
                  description |-> match_info.trigger_value],
     context |-> [instructions |-> agent.instructions,
                  files |-> matched_files,
                  confidence |-> confidence_of(match_info),
                  priority |-> agent.priority],
     route_to_agent |-> [name |-> agent.name, description |-> agent.description]]

\* push_instructions without the skip of an agent that already has an
\* instruction
RECURSIVE push_instructions_no_skip(_, _, _, _, _, _)
push_instructions_no_skip(instructions, rule, j, match_info, files_for_routing, user_config) ==
    IF j > Len(rule.route_to_subagents) THEN instructions
    ELSE LET agent_name == rule.route_to_subagents[j]
             found == {k \in 1..Len(user_config) : user_config[k].name = agent_name}
         IN  push_instructions_no_skip(
                IF found # {}
                THEN Append(instructions,
                            Instruction(match_info, user_config[FirstIn(found)],
                                find_matched_files(rule.conditions, files_for_routing)))
                ELSE instructions,
                rule, j + 1, match_info, files_for_routing, user_config)

\* push_instructions that leaves the rule's remaining targets when an agent
\* is not in the directory
RECURSIVE push_instructions_stop_on_missing(_, _, _, _, _, _)
push_instructions_stop_on_missing(instructions, rule, j, match_info, files_for_routing, user_config) ==
    IF j > Len(rule.route_to_subagents) THEN instructions
    ELSE LET agent_name == rule.route_to_subagents[j]
             already == \E k \in 1..Len(instructions) :
                            instructions[k].route_to_agent.name = agent_name
             found == {k \in 1..Len(user_config) : user_config[k].name = agent_name}
         IN  IF ~already /\ found = {} THEN instructions
             ELSE push_instructions_stop_on_missing(
                    IF ~already
                    THEN Append(instructions,
                                Instruction(match_info, user_config[FirstIn(found)],
                                    find_matched_files(rule.conditions, files_for_routing)))
                    ELSE instructions,
                    rule, j + 1, match_info, files_for_routing, user_config)

\* for agent_name in &rule.route_to_subagents { .. }
RECURSIVE push_instructions(_, _, _, _, _, _)
push_instructions(instructions, rule, j, match_info, files_for_routing, user_config) ==
    IF j > Len(rule.route_to_subagents) THEN instructions
    ELSE LET agent_name == rule.route_to_subagents[j]
             already == \E k \in 1..Len(instructions) :
                            instructions[k].route_to_agent.name = agent_name
             found == {k \in 1..Len(user_config) : user_config[k].name = agent_name}
         IN  push_instructions(
                IF ~already /\ found # {}
                THEN Append(instructions,
                            Instruction(match_info, user_config[FirstIn(found)],
                                find_matched_files(rule.conditions, files_for_routing)))
                ELSE instructions,
                rule, j + 1, match_info, files_for_routing, user_config)

\* for rule in &rules_config.rules { .. }
RECURSIVE all_rules_from(_, _, _, _, _, _)
all_rules_from(inp, tags, rules_config, user_config, i, instructions) ==
    IF i > Len(rules_config) THEN instructions
    ELSE LET match_info ==
                evaluate_rule_with_details(rules_config[i].conditions, inp, tags).m
             files_for_routing ==
                IF inp.associated_files.some THEN Unwrap(inp.associated_files) ELSE <<>>
         IN  all_rules_from(inp, tags, rules_config, user_config, i + 1,
                IF match_info # NoMatch
                THEN push_instructions(instructions, rules_config[i], 1, match_info,
                                       files_for_routing, user_config)
                ELSE instructions)

\* the single pass run without the tags identify_tags returned
apply_all_rules_without_tags(inp, tags, rules_config, user_config) ==
    all_rules_from(inp, <<>>, rules_config, user_config, 1, <<>>)

apply_all_rules_with_details(inp, tags, rules_config, user_config) ==
    all_rules_from(inp, tags, rules_config, user_config, 1, <<>>)

-----------------------------------------------------------------------------
(* Spec: requests through Classifier::classify and                         *)
(* Classifier::classify_enhanced, one at a time.  A request suspends only  *)
(* in identify_tags, so each handler is two steps: up to the call of the   *)
(* collaborator, and from its answer to the return.                        *)

MaxFiles == 2

MaxGitFiles == 1

PathChoices == {None, Some("custom.json")}

Inputs ==
    {ClassificationInput(t, i, None, af, gc, ap, rp, tp) :
        t  \in TaskTexts \cup {LongText},
        i  \in IntentTexts,
        af \in {None} \cup {Some(fs) : fs \in SeqsUpTo(FileNames, MaxFiles)},
        gc \in {None} \cup
               {Some(GitContext(b, ch, st)) :
                   b  \in BranchNames,
                   ch \in SeqsUpTo({"src/auth.ts"}, MaxGitFiles),
                   st \in {<<>>, <<"README.md">>}},
        ap \in PathChoices, rp \in PathChoices, tp \in PathChoices}

\* what the model can answer to the tagging prompt
Responses ==
    {<<>>, <<Num(0)>>, <<Num(1)>>, <<Num(2), Word(", "), Num(1)>>,
     <<Num(1), Word(" and "), Num(7)>>, <<Word("Security")>>}

\* the outcomes of identify_tags: an error, or the tags parsed from a response
TagOutcomes(tag_config) ==
    {[ok |-> FALSE, tags |-> <<>>]} \cup
    {[ok |-> TRUE, tags |-> parse_tag_list(r, tag_config)] : r \in Responses}

Err(e) ==
    [ok |-> FALSE, error |-> e, agents |-> <<>>, reasoning |-> "", method |-> "",
     llm_tags |-> None, instructions |-> <<>>]

ClassificationResult(names, reason, reasoning, method, tags) ==
    [ok |-> TRUE, error |-> "",
     agents |-> [k \in 1..Len(names) |-> [name |-> names[k], reason |-> reason]],
     reasoning |-> reasoning, method |-> method, llm_tags |-> tags,
     instructions |-> <<>>]

InstructionsResponse(instructions) ==
    [ok |-> TRUE, error |-> "", agents |-> <<>>, reasoning |-> "", method |-> "",
     llm_tags |-> None, instructions |-> instructions]

\* classify, lines 122-133
fast_return(rule_based) ==
    ClassificationResult(rule_based, "Matched file pattern or trigger",
                         "Clear rule-based matches", "rules", None)

\* a return that falls back to direct classification when no agent matched
classify_return_llm_fallback(all_agents, tags) ==
    IF all_agents = <<>>
    THEN ClassificationResult(<<"docs-writer">>, "LLM selected", "LLM classification",
                              "llm", Some(tags))
    ELSE ClassificationResult(all_agents, "Matched via rules or LLM tags",
                              "Rules + LLM semantic tags", "rules+llm-tags", Some(tags))

\* classify, lines 154-167
classify_return(all_agents, tags) ==
    ClassificationResult(all_agents, "Matched via rules or LLM tags",
                         "Rules + LLM semantic tags", "rules+llm-tags", Some(tags))

\* an Err of identify_tags swallowed: the agents found so far are returned
identify_tags_err_partial(rule_based) == classify_return(rule_based, <<>>)

\* `identify_tags(..).await?`: an Err of the collaborator ends the handler,
\* whatever the fast pass found
identify_tags_err(rule_based) == Err("tagging")

\* a merge that appends every tag agent
merge_agents_no_dedup(rule_based, tag_based) == rule_based \o tag_based

\* all_agents = rule_based_agents.clone(); push the tag agents not yet in it
merge_agents(rule_based, tag_based) == push_new(rule_based, tag_based, 1)

Init ==
    /\ binary = "lib"
    /\ ServerIdle
    /\ response = <<>>
    /\ pc = "idle"
    /\ mode = "none"
    /\ input = dummy_input
    /\ cfg = StartupConfig
    /\ used = None
    /\ rule_based_agents = <<>>
    /\ llm_tags = <<>>
    /\ result = None
    /\ tag_calls = 0
    /\ tags_result = "none"
    /\ tree = AllOf(<<>>)
    /\ flat = None
    /\ detail = None

\* classify, lines 77-140: validate, resolve the configurations, fast pass,
\* and either return or call identify_tags
ClassifyBegin ==
    /\ UNCHANGED <<server_vars, response>>
    /\ pc = "idle"
    /\ \E inp \in Inputs :
        /\ input' = inp
        /\ mode' = "classify"
        /\ IF ~validate(inp)
           THEN /\ result' = Some(Err("Input validation failed"))
                /\ pc' = "done"
                /\ UNCHANGED <<used, rule_based_agents, tag_calls>>
           ELSE \E res \in ResolveOutcomes(inp, cfg) :
                  IF ~res.ok
                  THEN /\ result' = Some(Err(res.error))
                       /\ pc' = "done"
                       /\ UNCHANGED <<used, rule_based_agents, tag_calls>>
                  ELSE LET agents == apply_rules(inp, res.config.rules)
                       IN  /\ used' = Some(res.config)
                           /\ rule_based_agents' = agents
                           /\ IF agents # <<>> /\ is_high_confidence(agents, inp)
                              THEN /\ result' = Some(fast_return(agents))
                                   /\ pc' = "done"
                                   /\ UNCHANGED tag_calls
                              ELSE /\ pc' = "classify_tags"
                                   /\ tag_calls' = tag_calls + 1
                                   /\ UNCHANGED result
    /\ UNCHANGED <<cfg, llm_tags, tags_result, tree, flat, detail>>

\* classify, lines 140-168: identify_tags answers; tag pass, merge, return
ClassifyResume ==
    /\ UNCHANGED <<server_vars, response>>
    /\ pc = "classify_tags"
    /\ \E out \in TagOutcomes(Unwrap(used).tags) :
          IF ~out.ok
          THEN /\ result' = Some(identify_tags_err(rule_based_agents))
               /\ tags_result' = "err"
               /\ UNCHANGED llm_tags
          ELSE LET tag_based_agents == apply_llm_tag_rules(out.tags, Unwrap(used).rules)
                   all_agents == merge_agents(rule_based_agents, tag_based_agents)
               IN  /\ llm_tags' = out.tags
                   /\ tags_result' = "ok"
                   /\ result' = Some(classify_return(all_agents, out.tags))
    /\ pc' = "done"
    /\ UNCHANGED <<mode, input, cfg, used, rule_based_agents, tag_calls, tree, flat,
                   detail>>

\* classify_enhanced, lines 181-223: validate, resolve the configurations and
\* call identify_tags
EnhancedBegin ==
    /\ UNCHANGED <<server_vars, response>>
    /\ pc = "idle"
    /\ \E inp \in Inputs :
        /\ input' = inp
        /\ mode' = "enhanced"
        /\ IF ~validate(inp)
           THEN /\ result' = Some(Err("Input validation failed"))
                /\ pc' = "done"
                /\ UNCHANGED <<used, tag_calls>>
           ELSE \E res \in ResolveOutcomes(inp, cfg) :
                  IF ~res.ok
                  THEN /\ result' = Some(Err(res.error))
                       /\ pc' = "done"
                       /\ UNCHANGED <<used, tag_calls>>
                  ELSE /\ used' = Some(res.config)
                       /\ pc' = "enhanced_tags"
                       /\ tag_calls' = tag_calls + 1
                       /\ UNCHANGED result
    /\ UNCHANGED <<cfg, rule_based_agents, llm_tags, tags_result, tree, flat, detail>>

\* classify_enhanced, lines 223-233: identify_tags answers; all rules in one
\* pass, return
EnhancedResume ==
    /\ UNCHANGED <<server_vars, response>>
    /\ pc = "enhanced_tags"
    /\ \E out \in TagOutcomes(Unwrap(used).tags) :
          IF ~out.ok
          THEN /\ result' = Some(identify_tags_err(<<>>))
               /\ tags_result' = "err"
               /\ UNCHANGED llm_tags
          ELSE /\ llm_tags' = out.tags
               /\ tags_result' = "ok"
               /\ result' = Some(InstructionsResponse(
                                apply_all_rules_with_details(input, out.tags,
                                    Unwrap(used).rules, Unwrap(used).agents)))
    /\ pc' = "done"
    /\ UNCHANGED <<mode, input, cfg, used, rule_based_agents, tag_calls, tree, flat,
                   detail>>

\* a return that keeps the configuration of the request as the cached one
Return_keeps_override ==
    /\ UNCHANGED <<server_vars, response>>
    /\ pc = "done"
    /\ pc' = "idle"
    /\ mode' = "none"
    /\ input' = dummy_input
    /\ cfg' = IF used.some THEN Unwrap(used) ELSE cfg
    /\ used' = None
    /\ rule_based_agents' = <<>>
    /\ llm_tags' = <<>>
    /\ result' = None
    /\ tag_calls' = 0
    /\ tags_result' = "none"
    /\ UNCHANGED <<tree, flat, detail>>

\* the caller takes the result; the request's locals are dropped
Return ==
    /\ UNCHANGED <<server_vars, response>>
    /\ pc = "done"
    /\ pc' = "idle"
    /\ mode' = "none"
    /\ input' = dummy_input
    /\ used' = None
    /\ rule_based_agents' = <<>>
    /\ llm_tags' = <<>>
    /\ result' = None
    /\ tag_calls' = 0
    /\ tags_result' = "none"
    /\ UNCHANGED <<cfg, tree, flat, detail>>

Next == ClassifyBegin \/ ClassifyResume \/ EnhancedBegin \/ EnhancedResume \/ Return

Spec == Init /\ [][Next]_vars

-----------------------------------------------------------------------------
(* Properties of classify and classify_enhanced (Spec) *)

Names(recs) == [k \in 1..Len(recs) |-> recs[k].name]

NoDuplicates(seq) == \A i, j \in 1..Len(seq) : i # j => seq[i] # seq[j]

\* the confidence heuristic as section 4.4 states it, on the intents of the model
ConfidenceHeuristic(inp) ==
    \/ inp.associated_files.some /\ Unwrap(inp.associated_files) # <<>>
    \/ inp.git_context.some /\ Unwrap(inp.git_context).changed_files # <<>>
    \/ inp.intent \in {"Review before COMMIT", "open pull_request"}

\* the fast pass ran for the request in the state
FastPassRan == mode = "classify" /\ used.some

FastAgents == apply_rules(input, Unwrap(used).rules)

TagAgents == apply_llm_tag_rules(llm_tags, Unwrap(used).rules)

\* C1: when the fast pass returns agents and the confidence heuristic holds,
\* classify returns method "rules", reasoning "Clear rule-based matches", no
\* llm_tags and one recommendation per matched agent in rule order, and
\* identify_tags is not called.
C1_FastPathReturnsRules ==
    (FastPassRan /\ FastAgents # <<>> /\ ConfidenceHeuristic(input)) =>
        /\ pc = "done"
        /\ tag_calls = 0
        /\ result.some
        /\ Unwrap(result).ok
        /\ Unwrap(result).method = "rules"
        /\ Unwrap(result).reasoning = "Clear rule-based matches"
        /\ Unwrap(result).llm_tags = None
        /\ Names(Unwrap(result).agents) = FastAgents
        /\ \A k \in 1..Len(Unwrap(result).agents) :
              Unwrap(result).agents[k].reason = "Matched file pattern or trigger"

\* a fast-path return of two agents that rests on the intent alone
C1_Witness ==
    /\ FastPassRan
    /\ pc = "done"
    /\ NoFilesDeclared(input)
    /\ ~input.git_context.some
    /\ Len(FastAgents) = 2
    /\ Unwrap(result).method = "rules"

\* classify went through identify_tags and returned Ok
TagPathReturned ==
    /\ FastPassRan
    /\ pc = "done"
    /\ tag_calls = 1
    /\ Unwrap(result).ok

EnhancedReturned ==
    /\ mode = "enhanced"
    /\ pc = "done"
    /\ Unwrap(result).ok

PriorityOf(name, user_config) ==
    user_config[FirstIn({k \in 1..Len(user_config) : user_config[k].name = name})].priority

\* C10: an Instruction has confidence 85 when its trigger is "llm_tag" and
\* 100 otherwise, and the priority of the routed agent's definition.
C10_ConfidenceAndPriority ==
    EnhancedReturned =>
        \A k \in 1..Len(Unwrap(result).instructions) :
            LET ins == Unwrap(result).instructions[k]
            IN  /\ ins.trigger.name = "llm_tag" => ins.context.confidence = 85
                /\ ins.trigger.name # "llm_tag" => ins.context.confidence = 100
                /\ ins.context.priority =
                      PriorityOf(ins.route_to_agent.name, Unwrap(used).agents)

\* one response with a tag-triggered and a pattern-triggered instruction
C10_Witness ==
    /\ EnhancedReturned
    /\ \E k \in 1..Len(Unwrap(result).instructions) :
          /\ Unwrap(result).instructions[k].trigger.name = "llm_tag"
          /\ Unwrap(result).instructions[k].context.confidence = 85
          /\ Unwrap(result).instructions[k].context.priority = 90
    /\ \E k \in 1..Len(Unwrap(result).instructions) :
          /\ Unwrap(result).instructions[k].trigger.name = "file_regex"
          /\ Unwrap(result).instructions[k].context.confidence = 100
          /\ Unwrap(result).instructions[k].context.priority = 0

\* classify on a request whose configurations resolved to config, with
\* identify_tags answering out when it is called
classify_answer(inp, config, out) ==
    IF ~validate(inp) THEN Err("Input validation failed")
    ELSE LET agents == apply_rules(inp, config.rules)
         IN  IF agents # <<>> /\ is_high_confidence(agents, inp) THEN fast_return(agents)
             ELSE IF ~out.ok THEN Err("tagging")
             ELSE classify_return(
                     merge_agents(agents, apply_llm_tag_rules(out.tags, config.rules)),
                     out.tags)

\* classify_enhanced, likewise
enhanced_answer(inp, config, out) ==
    IF ~validate(inp) THEN Err("Input validation failed")
    ELSE IF ~out.ok THEN Err("tagging")
    ELSE InstructionsResponse(
            apply_all_rules_with_details(inp, out.tags, config.rules, config.agents))

\* the requests that differ from inp in changed_files and staged_files only
GitVariants(inp) ==
    IF ~inp.git_context.some THEN {inp}
    ELSE {[inp EXCEPT !.git_context =
                Some(GitContext(Unwrap(inp.git_context).branch, ch, st))] :
            ch \in SeqsUpTo({"src/auth.ts"}, MaxGitFiles),
            st \in {<<>>, <<"README.md">>}}

\* C5: two requests that differ only in changed_files and staged_files, with
\* the same configuration and a tag collaborator that answers the same
\* prompt the same way, get the same classify result and the same
\* classify_enhanced instructions.
C5_RoutingIgnoresGitFiles ==
    (pc = "done" /\ used.some) =>
        \A in2 \in GitVariants(input) :
            \A o1, o2 \in TagOutcomes(Unwrap(used).tags) :
                (build_tagging_prompt(input, Unwrap(used).tags) =
                     build_tagging_prompt(in2, Unwrap(used).tags) => o1 = o2)
                => /\ classify_answer(input, Unwrap(used), o1) =
                          classify_answer(in2, Unwrap(used), o2)
                   /\ enhanced_answer(input, Unwrap(used), o1) =
                          enhanced_answer(in2, Unwrap(used), o2)

-----------------------------------------------------------------------------
(* Properties of the instructions classify_enhanced returns (Spec) *)

Instructions == Unwrap(result).instructions

FilesForRouting ==
    IF input.associated_files.some THEN Unwrap(input.associated_files) ELSE <<>>

\* the match detail of rule i of the configuration used, on the request and
\* the tags of the state
MatchInfoOf(i) ==
    evaluate_rule_with_details(Unwrap(used).rules[i].conditions, input, llm_tags).m

\* the rules that matched and name the agent
RulesNaming(name) ==
    {i \in 1..Len(Unwrap(used).rules) :
        /\ MatchInfoOf(i) # NoMatch
        /\ Contains(Unwrap(used).rules[i].route_to_subagents, name)}

\* C11: a response holds at most one Instruction per agent name, and it
\* carries the trigger, confidence and files of the first rule, in
\* configuration order, that matched and names the agent.
C11_FirstRuleWins ==
    EnhancedReturned =>
        /\ NoDuplicates([k \in 1..Len(Instructions) |-> Instructions[k].route_to_agent.name])
        /\ \A k \in 1..Len(Instructions) :
              LET ins   == Instructions[k]
                  S     == RulesNaming(ins.route_to_agent.name)
                  first == FirstIn(S)
              IN  /\ S # {}
                  /\ ins.trigger = [name |-> MatchInfoOf(first).trigger_type,
                                    description |-> MatchInfoOf(first).trigger_value]
                  /\ ins.context.confidence =
                        (IF MatchInfoOf(first).trigger_type = "llm_tag" THEN 85 ELSE 100)
                  /\ ins.context.files =
                        find_matched_files(Unwrap(used).rules[first].conditions,
                                           FilesForRouting)

\* two rules matched with different triggers, confidences and files and name
\* the same agent, which has one instruction
C11_Witness ==
    /\ EnhancedReturned
    /\ \E k \in 1..Len(Instructions) :
          \E i, j \in RulesNaming(Instructions[k].route_to_agent.name) :
              /\ i < j
              /\ MatchInfoOf(i).trigger_type # "llm_tag"
              /\ MatchInfoOf(j).trigger_type = "llm_tag"
              /\ find_matched_files(Unwrap(used).rules[i].conditions, FilesForRouting)
                    # find_matched_files(Unwrap(used).rules[j].conditions, FilesForRouting)

\* a single file satisfies the tree when only FilePattern and FileRegex
\* leaves can match a file
RECURSIVE FileSatisfies(_, _)
FileSatisfies(conditions, file) ==
    CASE conditions.kind = "Single" ->
            \/ /\ conditions.cond.type = "file_pattern"
               /\ GlobValid(conditions.cond.pat)
               /\ GlobMatches(conditions.cond.pat, file)
            \/ /\ conditions.cond.type = "file_regex"
               /\ RegexValid(conditions.cond.pat)
               /\ RegexMatches(conditions.cond.pat, file)
      [] conditions.kind = "AnyOf" ->
            \E i \in 1..Len(conditions.children) :
                FileSatisfies(conditions.children[i], file)
      [] conditions.kind = "AllOf" ->
            \A i \in 1..Len(conditions.children) :
                FileSatisfies(conditions.children[i], file)

\* C12: context.files of an Instruction is the sub-list of associated_files
\* whose members satisfy the tree of the instruction's rule, or the whole of
\* associated_files when no member does; it is a sub-list of associated_files
\* and is empty only when associated_files is absent or empty.
C12_ContextFiles ==
    EnhancedReturned =>
        \A k \in 1..Len(Instructions) :
            LET ins  == Instructions[k]
                rule == Unwrap(used).rules[FirstIn(RulesNaming(ins.route_to_agent.name))]
                sub  == SelectSeq(FilesForRouting,
                                  LAMBDA f : FileSatisfies(rule.conditions, f))
            IN  /\ ins.context.files = (IF sub = <<>> THEN FilesForRouting ELSE sub)
                /\ Range(ins.context.files) \subseteq Range(FilesForRouting)
                /\ Len(ins.context.files) <= Len(FilesForRouting)
                /\ ins.context.files = <<>> => FilesForRouting = <<>>

\* one response with an instruction that keeps one of two declared files and
\* an instruction, from a rule no file satisfies, that carries both
C12_Witness ==
    /\ EnhancedReturned
    /\ Len(FilesForRouting) = 2
    /\ \E k \in 1..Len(Instructions) : Len(Instructions[k].context.files) = 1
    /\ \E k \in 1..Len(Instructions) :
          /\ Instructions[k].context.files = FilesForRouting
          /\ \A i \in 1..2 :
                ~FileSatisfies(
                    Unwrap(used).rules[
                        FirstIn(RulesNaming(Instructions[k].route_to_agent.name))].conditions,
                    FilesForRouting[i])

\* the names of the agent directory of the configuration used
Directory == {Unwrap(used).agents[k].name : k \in 1..Len(Unwrap(used).agents)}

\* the targets of the rules that matched
MatchedTargets ==
    {n \in UNION {Range(Unwrap(used).rules[i].route_to_subagents) :
                     i \in 1..Len(Unwrap(used).rules)} : RulesNaming(n) # {}}

\* classify_enhanced got the tags and went through the rules
EnhancedAfterTags ==
    /\ mode = "enhanced"
    /\ pc = "done"
    /\ used.some
    /\ Unwrap(result).error # "tagging"

\* C13: the agents routed to are exactly the targets of matched rules that
\* are in the agent directory; a target absent from the directory gives no
\* Instruction and no error, and the other targets of its rule and of later
\* rules still get theirs.
C13_MissingAgentSkipped ==
    EnhancedAfterTags =>
        /\ Unwrap(result).ok
        /\ {Instructions[k].route_to_agent.name : k \in 1..Len(Instructions)}
              = MatchedTargets \cap Directory

\* a matched rule names an agent absent from the directory before one that
\* is present, and a later matched rule adds another instruction
C13_Witness ==
    /\ EnhancedReturned
    /\ Len(Instructions) = 2
    /\ \E i, j \in 1..Len(Unwrap(used).rules) :
          /\ i < j
          /\ MatchInfoOf(i) # NoMatch
          /\ MatchInfoOf(j) # NoMatch
          /\ Len(Unwrap(used).rules[i].route_to_subagents) = 2
          /\ Unwrap(used).rules[i].route_to_subagents[1] \notin Directory
          /\ Unwrap(used).rules[i].route_to_subagents[2] = Instructions[1].route_to_agent.name
          /\ Unwrap(used).rules[j].route_to_subagents = <<Instructions[2].route_to_agent.name>>

-----------------------------------------------------------------------------
(* Properties of the failures of a request (Spec) *)

\* the request in flight breaks a limit of ClassificationInput::validate
FailsValidation ==
    /\ mode \in {"classify", "enhanced"}
    /\ \/ ~validate(input)
       \/ ByteLen(input.task) > MAX_PROMPT_LENGTH

\* C14: a request that fails validation is answered with the validation
\* error and nothing else: no configuration was resolved for it, no rule pass
\* ran and identify_tags was not called.
C14_ValidationFailsFast ==
    FailsValidation =>
        /\ pc = "done"
        /\ result = Some(Err("Input validation failed"))
        /\ Unwrap(result).agents = <<>>
        /\ Unwrap(result).instructions = <<>>
        /\ used = None
        /\ rule_based_agents = <<>>
        /\ tag_calls = 0
        /\ tags_result = "none"

\* an over-long task in a request that names three override paths and
\* declares a file the startup rules match
C14_Witness ==
    /\ FailsValidation
    /\ input.agent_config_path.some
    /\ input.rules_config_path.some
    /\ input.llm_tags_path.some
    /\ input.associated_files = Some(<<"src/auth.ts">>)
    /\ ~Unwrap(result).ok

\* C15: when identify_tags fails the request ends with an error, after one
\* call of the collaborator, with no agents and no instructions, whatever the
\* fast pass had found.
C15_TagFailureAborts ==
    tags_result = "err" =>
        /\ pc = "done"
        /\ tag_calls = 1
        /\ result.some
        /\ ~Unwrap(result).ok
        /\ Unwrap(result).error = "tagging"
        /\ Unwrap(result).agents = <<>>
        /\ Unwrap(result).instructions = <<>>
        /\ Unwrap(result).llm_tags = None

\* identify_tags failed after the fast pass of classify had matched two
\* agents with low confidence
C15_Witness ==
    /\ tags_result = "err"
    /\ mode = "classify"
    /\ Len(rule_based_agents) = 2
    /\ ~Unwrap(result).ok

-----------------------------------------------------------------------------
(* Properties of the configurations (Spec) *)

\* the part of the configuration used comes from the request's override path
\* when it has one, and from the cached configuration otherwise
ResolvedFrom(path, part, cached, loadable) ==
    IF path.some THEN part \in loadable ELSE part = cached

-----------------------------------------------------------------------------
(* Properties of the tag call of classify_enhanced (Spec) *)

\* classify_enhanced is handling, or has answered, a request that passes
\* validation
EnhancedValid == mode = "enhanced" /\ validate(input)

\* a rule without an LlmTag leaf matches the request
DeterministicMatch ==
    \E i \in 1..Len(Unwrap(used).rules) :
        /\ ~rule_contains_llm_tags(Unwrap(used).rules[i].conditions)
        /\ MatchInfoOf(i) # NoMatch

\* C17 as stated: every classify_enhanced call on a valid request has called
\* identify_tags exactly once by the time it returns.
C17_AlwaysOneTagCall ==
    (EnhancedValid /\ pc = "done") => tag_calls = 1

\* C17, amended: on a valid request whose configurations resolve,
\* classify_enhanced calls identify_tags exactly once, before any rule is
\* evaluated and whether or not deterministic rules match, and then builds
\* the instructions from all rules against the tags obtained; when an
\* override fails to load the request ends without the call.
C17_OneTagCallOnceResolved ==
    EnhancedValid =>
        /\ used.some <=> tag_calls = 1
        /\ ~used.some <=> tag_calls = 0
        /\ pc = "enhanced_tags" => (used.some /\ result = None /\ tags_result = "none")
        /\ (pc = "done" /\ used.some) => tags_result \in {"ok", "err"}
        /\ (pc = "done" /\ ~used.some) =>
              Unwrap(result).error \in {"agent_config", "llm_tags_config", "rules_config"}
        /\ (pc = "done" /\ tags_result = "ok") =>
              /\ Unwrap(result).ok
              /\ {Instructions[k].route_to_agent.name : k \in 1..Len(Instructions)}
                    = MatchedTargets \cap Directory
              /\ \A k \in 1..Len(Instructions) :
                    Instructions[k].trigger.name = "llm_tag" =>
                        Contains(llm_tags, Instructions[k].trigger.description)

\* a response with an instruction from a rule without tag leaves and one
\* triggered by a tag, after one call of identify_tags
C17_Witness ==
    /\ EnhancedValid
    /\ pc = "done"
    /\ tag_calls = 1
    /\ tags_result = "ok"
    /\ DeterministicMatch
    /\ \E k \in 1..Len(Instructions) : Instructions[k].trigger.name = "llm_tag"
    /\ \E k \in 1..Len(Instructions) : Instructions[k].trigger.name = "file_regex"

-----------------------------------------------------------------------------
(* Properties of the tag pass (SpecRules) *)

\* the tree with every leaf other than LlmTag counted as no match
RECURSIVE TagsOnly(_, _)
TagsOnly(conditions, tags) ==
    CASE conditions.kind = "Single" ->
            conditions.cond.type = "llm_tag" /\ Contains(tags, conditions.cond.pat)
      [] conditions.kind = "AnyOf" ->
            \E i \in 1..Len(conditions.children) : TagsOnly(conditions.children[i], tags)
      [] conditions.kind = "AllOf" ->
            \A i \in 1..Len(conditions.children) : TagsOnly(conditions.children[i], tags)

TagsOnlyHit(rule) ==
    /\ rule_contains_llm_tags(rule.conditions)
    /\ TagsOnly(rule.conditions, llm_tags)

\* C18: the tag pass returns the targets of the rules that hold an LlmTag
\* leaf and match with every non-tag leaf counted as no match, whatever its
\* pattern; an AllOf with a non-tag leaf contributes nothing.
C18_TagPassIgnoresNonTagLeaves ==
    pc = "rules_done" =>
        FirstSeenOrder(Unwrap(detail), TargetsOf(cfg.rules, TagsOnlyHit, 1))

-----------------------------------------------------------------------------
(* Properties of rules that mix tag and non-tag leaves (Spec) *)

\* an AllOf with an LlmTag leaf and a file or branch leaf among its children
MixedAllOf(conditions) ==
    /\ conditions.kind = "AllOf"
    /\ \E i \in 1..Len(conditions.children) :
          /\ conditions.children[i].kind = "Single"
          /\ conditions.children[i].cond.type = "llm_tag"
    /\ \E i \in 1..Len(conditions.children) :
          /\ conditions.children[i].kind = "Single"
          /\ conditions.children[i].cond.type \in
                {"file_pattern", "file_regex", "branch_regex"}

\* C19: when classify returns with tags, the agents of every AllOf rule that
\* mixes an LlmTag leaf with file or branch leaves, and whose leaves all hold
\* for the request and the tags, are among the agents returned.
C19_MixedAllOfReachable ==
    (mode = "classify" /\ pc = "done" /\ tags_result = "ok") =>
        \A i \in 1..Len(Unwrap(used).rules) :
            LET rule == Unwrap(used).rules[i]
            IN  (/\ MixedAllOf(rule.conditions)
                 /\ evaluate_conditions(rule.conditions, input, llm_tags))
                => Range(rule.route_to_subagents)
                      \subseteq Range(Names(Unwrap(result).agents))

-----------------------------------------------------------------------------
(* Properties of patterns that do not compile (SpecRules) *)

\* the pattern of the leaf compiles
Compiles(condition) ==
    CASE condition.type = "file_pattern" -> GlobValid(condition.pat)
      [] condition.type \in {"file_regex", "prompt_regex", "branch_regex"} ->
            RegexValid(condition.pat)
      [] OTHER -> TRUE

\* the tree on the request, without tags, with every leaf whose pattern does
\* not compile counted as no match
RECURSIVE CompiledOnly(_, _)
CompiledOnly(conditions, inp) ==
    CASE conditions.kind = "Single" ->
            Compiles(conditions.cond) /\ evaluate_condition(conditions.cond, inp, <<>>)
      [] conditions.kind = "AnyOf" ->
            \E i \in 1..Len(conditions.children) :
                CompiledOnly(conditions.children[i], inp)
      [] conditions.kind = "AllOf" ->
            \A i \in 1..Len(conditions.children) :
                CompiledOnly(conditions.children[i], inp)

CompiledHit(rule) == CompiledOnly(rule.conditions, input)

\* C20: a file, prompt or branch leaf whose pattern does not compile matches
\* no request: apply_rules returns the targets of the rules that match with
\* such leaves counted as no match, and goes through all the rules.
C20_MalformedPatternNeverMatches ==
    pc = "rules_done" =>
        FirstSeenOrder(Unwrap(flat), TargetsOf(cfg.rules, CompiledHit, 1))

-----------------------------------------------------------------------------
(* rules.rs: the calls of Regex::new made by the flat evaluator.  The       *)
(* operators follow evaluate_condition / evaluate_conditions / apply_rules  *)
(* and return, in order, the pattern strings handed to Regex::new.          *)

\* evaluate_condition: `if let Ok(re) = Regex::new(regex_pattern)` in the
\* FileRegex and BranchRegex arms (inside `if let Some(git_ctx)`) and in the
\* PromptRegex arm
regex_new_condition(condition, inp) ==
    CASE condition.type = "file_regex" ->
            IF inp.git_context.some THEN <<condition.pat>> ELSE <<>>
      [] condition.type = "prompt_regex" -> <<condition.pat>>
      [] condition.type = "branch_regex" ->
            IF inp.git_context.some THEN <<condition.pat>> ELSE <<>>
      [] OTHER -> <<>>

RECURSIVE regex_new_conditions(_, _, _)
RECURSIVE regex_new_any(_, _, _, _)
RECURSIVE regex_new_all(_, _, _, _)

\* Iterator::any: the children up to and including the first that matches
regex_new_any(children, i, inp, tags) ==
    IF i > Len(children) THEN <<>>
    ELSE regex_new_conditions(children[i], inp, tags)
         \o (IF evaluate_conditions(children[i], inp, tags) THEN <<>>
             ELSE regex_new_any(children, i + 1, inp, tags))

\* Iterator::all: the children up to and including the first that fails
regex_new_all(children, i, inp, tags) ==
    IF i > Len(children) THEN <<>>
    ELSE regex_new_conditions(children[i], inp, tags)
         \o (IF ~evaluate_conditions(children[i], inp, tags) THEN <<>>
             ELSE regex_new_all(children, i + 1, inp, tags))

regex_new_conditions(conditions, inp, tags) ==
    CASE conditions.kind = "Single" -> regex_new_condition(conditions.cond, inp)
      [] conditions.kind = "AnyOf"  -> regex_new_any(conditions.children, 1, inp, tags)
      [] conditions.kind = "AllOf"  -> regex_new_all(conditions.children, 1, inp, tags)

\* apply_rules evaluates every rule of the list
RECURSIVE regex_new_apply_rules(_, _, _)
regex_new_apply_rules(inp, rules, i) ==
    IF i > Len(rules) THEN <<>>
    ELSE regex_new_conditions(rules[i].conditions, inp, <<>>)
         \o regex_new_apply_rules(inp, rules, i + 1)

\* apply_llm_tag_rules evaluates the rules that contain an LlmTag leaf
RECURSIVE regex_new_apply_llm_tag_rules(_, _, _)
regex_new_apply_llm_tag_rules(tags, rules, i) ==
    IF i > Len(rules) THEN <<>>
    ELSE (IF rule_contains_llm_tags(rules[i].conditions)
          THEN regex_new_conditions(rules[i].conditions, dummy_input, tags)
          ELSE <<>>)
         \o regex_new_apply_llm_tag_rules(tags, rules, i + 1)

\* number of times pattern p was handed to Regex::new in made
Attempts(made, p) == Cardinality({k \in DOMAIN made : made[k] = p})

\* the Regex::new calls of the two passes of one request
PassesCalls ==
    regex_new_apply_rules(input, cfg.rules, 1)
    \o regex_new_apply_llm_tag_rules(llm_tags, cfg.rules, 1)

\* the regex leaves of a tree
RECURSIVE RegexLeaves(_)
RegexLeaves(conditions) ==
    CASE conditions.kind = "Single" ->
            IF conditions.cond.type \in {"file_regex", "prompt_regex", "branch_regex"}
            THEN {conditions.cond} ELSE {}
      [] OTHER -> UNION {RegexLeaves(conditions.children[i]) :
                            i \in 1..Len(conditions.children)}

\* C21: after the two rule passes of a request, every regex pattern that does
\* not compile and was evaluated has been handed to the compiler exactly
\* once, however many leaves and rules carry it, and every leaf that carries
\* it is a non-match.
C21_InvalidPatternCompiledOnce ==
    pc = "rules_done" =>
        /\ \A p \in Range(PassesCalls) :
              ~RegexValid(p) => Attempts(PassesCalls, p) = 1
        /\ \A i \in 1..Len(cfg.rules) :
              \A leaf \in RegexLeaves(cfg.rules[i].conditions) :
                 ~RegexValid(leaf.pat) => ~evaluate_condition(leaf, input, llm_tags)

\* the Regex::new calls of two requests served from the same rule list; the
\* evaluator shares no state between requests, so every interleaving of the
\* two makes the calls of both
TwoRequestsCalls(inp2) ==
    PassesCalls \o regex_new_apply_rules(inp2, cfg.rules, 1)

\* C22: whatever second request is served next to the one in flight, every
\* regex pattern the two evaluate is compiled at most once in all: the
\* second evaluation finds the one entry the first one left in the cache.
C22_PatternCompiledOncePerProcess ==
    pc = "rules_done" =>
        \A inp2 \in RulesInputs :
            \A p \in Range(TwoRequestsCalls(inp2)) :
                Attempts(TwoRequestsCalls(inp2), p) <= 1

-----------------------------------------------------------------------------
(* Stage order within one classify request (Spec) *)

\* the tag pass over the configuration of the request, from the rules
TagTargets == TargetsOf(Unwrap(used).rules, TagHit, 1)

\* what holds while classify is suspended in identify_tags: validation and
\* the fast pass are complete, the call is made once, nothing later has run
SuspendedInTagCall ==
    /\ validate(input)
    /\ used.some
    /\ FirstSeenOrder(rule_based_agents, TargetsOf(Unwrap(used).rules, FastHit, 1))
    /\ tag_calls = 1
    /\ tags_result = "none"
    /\ llm_tags = <<>>
    /\ result = None

\* what holds when classify returns after identify_tags answered Ok: the
\* merge is the fast-pass agents followed by the agents of the tag pass on
\* the tags of that answer
ReturnedAfterTagCall ==
    /\ validate(input)
    /\ used.some
    /\ tag_calls = 1
    /\ FirstSeenOrder(rule_based_agents, TargetsOf(Unwrap(used).rules, FastHit, 1))
    /\ \E out \in TagOutcomes(Unwrap(used).tags) : out.ok /\ out.tags = llm_tags
    /\ Unwrap(result).llm_tags = Some(llm_tags)
    /\ FirstSeenOrder(Names(Unwrap(result).agents), rule_based_agents \o TagTargets)
    /\ SubSeq(Names(Unwrap(result).agents), 1, Len(rule_based_agents)) = rule_based_agents

\* C23: within one classify request the stages run in the order validate,
\* fast pass, tag call, tag pass, merge, each once: the tag call is made only
\* after validation and the fast pass, is made at most once, the step after
\* it leaves the request, its configuration and the fast-pass agents as they
\* were, and the merged result is built from the tags that call returned.
C23_StageOrder ==
    /\ [](mode = "classify" =>
            /\ tag_calls \in {0, 1}
            /\ (pc = "classify_tags" => SuspendedInTagCall)
            /\ (pc = "done" /\ tags_result = "ok" => ReturnedAfterTagCall)
            /\ (pc = "done" /\ tag_calls = 0 /\ Unwrap(result).ok =>
                    /\ tags_result = "none"
                    /\ Names(Unwrap(result).agents) = rule_based_agents))
    /\ [][(mode = "classify" /\ pc = "classify_tags") =>
            /\ pc' = "done"
            /\ tags_result' \in {"ok", "err"}
            /\ tag_calls' = tag_calls
            /\ <<mode', input', used', rule_based_agents'>>
                  = <<mode, input, used, rule_based_agents>>]_vars

\* a request that went through every stage: the fast pass found an agent,
\* the tag call returned two tags and the tag pass added an agent
C23_Witness ==
    /\ mode = "classify"
    /\ pc = "done"
    /\ tags_result = "ok"
    /\ rule_based_agents # <<>>
    /\ Len(llm_tags) = 2
    /\ Len(Unwrap(result).agents) > Len(rule_based_agents)

-----------------------------------------------------------------------------
(* lib.rs and main.rs: the tool handlers under concurrent calls.  binary    *)
(* says which of the two RouterServerHandler implementations serves:        *)
(* lib.rs (tools init_llm, get_instructions; the classifier in a OnceCell)  *)
(* or main.rs (tools start_ollama, get_routing, load_model, pull_model; the *)
(* classifier an Option inside the Mutex).  A step of a caller runs from    *)
(* one await to the next.  The calls the model makes are get_instructions,  *)
(* get_routing and a name no binary knows.                                  *)

MaxCalls == 3

\* the match arms of handle_call_tool_request
Tools(bin) ==
    IF bin = "lib" THEN {"init_llm", "get_instructions"}
    ELSE {"start_ollama", "get_routing", "load_model", "pull_model"}

CalledNames == {"get_instructions", "get_routing", "unknown_tool"}

\* the arguments of a call: task missing, task within the limit, task over it
ParamChoices ==
    {[task |-> t, intent |-> "general help"] :
        t \in {None, Some("fix auth bug"), Some(LongText)}}

\* git contexts detect_git_context can find in the working directory
DetectedGit == {None, Some(GitContext("main", <<>>, <<>>))}

\* the ClassificationInput that handle_get_instructions_tool builds
instructions_input(params, git) == ClassificationInput(Unwrap(params.task), params.intent, None, None, git, None, None, None)

\* Ok(text): CallToolResult::text_content
ToolOk(text) == Some([ok |-> TRUE, text |-> text])

\* Err(message): CallToolError
ToolErr(message) == Some([ok |-> FALSE, text |-> message])

\* return Ok(r#"{"error":"Ollama is not running. ..."}"#)
ollama_not_running == ToolOk("{\"error\":\"Ollama is not running. Run init_llm first to start Ollama and load the model.\"}")

\* return Ok(r#"{"error":"Model not loaded into memory. ..."}"#)
model_not_loaded == ToolOk("{\"error\":\"Model not loaded into memory. Run init_llm to load it.\"}")

\* Classifier::initialize: ModelManager::initialize bails when Ollama is not
\* running or the model is not found, and the configurations may fail to load
InitializeOutcomes == {"ok", "ollama_not_running", "init_failed"}

\* caller c moves to position p, having gone through the stages events
Goto(c, p, events) ==
    /\ task_pc' = [task_pc EXCEPT ![c] = p]
    /\ task_trace' = [task_trace EXCEPT ![c] = @ \o events]
    /\ UNCHANGED task_result

\* the handler of caller c returns r, having gone through the stages events
Finish(c, r, events) ==
    /\ task_pc' = [task_pc EXCEPT ![c] = "done"]
    /\ task_trace' = [task_trace EXCEPT ![c] = @ \o events]
    /\ task_result' = [task_result EXCEPT ![c] = r]

InitServer ==
    /\ pc = "idle"
    /\ mode = "none"
    /\ input = dummy_input
    /\ cfg = StartupConfig
    /\ used = None
    /\ rule_based_agents = <<>>
    /\ llm_tags = <<>>
    /\ result = None
    /\ tag_calls = 0
    /\ tags_result = "none"
    /\ tree = AllOf(<<>>)
    /\ flat = None
    /\ detail = None
    /\ binary \in {"lib", "main"}
    /\ ServerIdle
    /\ response = <<>>

\* handle_call_tool_request: dispatch on the tool name
CallTool(c) ==
    /\ task_pc[c] = "idle"
    /\ calls < MaxCalls
    /\ calls' = calls + 1
    /\ \E name \in CalledNames, params \in ParamChoices :
          /\ task_tool' = [task_tool EXCEPT ![c] = name]
          /\ task_params' = [task_params EXCEPT ![c] = Some(params)]
          /\ IF name \notin Tools(binary)
             THEN Finish(c, ToolErr("unknown tool"), <<>>)
             ELSE IF name = "get_instructions"
             THEN Goto(c, "gi_lock", <<>>)
             ELSE Goto(c, "gr_ensure", <<>>)
    /\ UNCHANGED <<core_vars, binary, state_lock, classifier_cell, cell_permit, cell_stores>>

\* lib.rs 408-411: lock the state, clone the cell and the config, drop the
\* lock; no await between lock and drop
GiLock(c) ==
    /\ task_pc[c] = "gi_lock"
    /\ state_lock = 0
    /\ Goto(c, "gi_init", <<>>)
    /\ UNCHANGED <<core_vars, binary, state_lock, classifier_cell, cell_permit, cell_stores, calls, task_tool, task_params>>

\* an entry into the initialiser that does not take the permit
GiInit_no_permit(c) ==
    /\ task_pc[c] = "gi_init"
    /\ IF classifier_cell.some
       THEN Goto(c, "gi_ollama", <<"classifier_ready">>)
       ELSE Goto(c, "gi_initializing", <<>>)
    /\ UNCHANGED <<core_vars, binary, state_lock, classifier_cell, cell_permit, cell_stores, calls, task_tool, task_params>>

\* lib.rs 414: OnceCell::get_or_try_init: the value if the cell is set, else
\* wait for the cell's permit and run the initialiser
GiInit(c) ==
    /\ task_pc[c] = "gi_init"
    /\ IF classifier_cell.some
       THEN /\ Goto(c, "gi_ollama", <<"classifier_ready">>)
            /\ UNCHANGED cell_permit
       ELSE /\ cell_permit = 0
            /\ cell_permit' = c
            /\ Goto(c, "gi_initializing", <<>>)
    /\ UNCHANGED <<core_vars, binary, state_lock, classifier_cell, cell_stores, calls, task_tool, task_params>>

\* lib.rs 415-425: Classifier::new and initialize() end; Ok stores the
\* classifier in the cell, Err leaves it empty and returns through `?`
GiInitialized(c) ==
    /\ task_pc[c] = "gi_initializing"
    /\ cell_permit' = 0
    /\ \E r \in InitializeOutcomes :
          IF r = "ok"
          THEN /\ classifier_cell' = Some(c)
               /\ cell_stores' = cell_stores + 1
               /\ Goto(c, "gi_ollama", <<"classifier_ready">>)
          ELSE /\ UNCHANGED <<classifier_cell, cell_stores>>
               /\ Finish(c, ToolErr("Failed to initialize classifier"), <<r>>)
    /\ UNCHANGED <<core_vars, binary, state_lock, calls, task_tool, task_params>>

\* lib.rs 428-442: check_ollama_running answers; it maps a failed request
\* to Ok(false) and is never an Err
GiOllama(c) ==
    /\ task_pc[c] = "gi_ollama"
    /\ \E r \in {"no", "yes"} :
          CASE r = "no"  -> Finish(c, ollama_not_running, <<"ollama_not_running">>)
            [] r = "yes" -> Goto(c, "gi_model", <<"ollama_running">>)
    /\ UNCHANGED <<core_vars, binary, state_lock, classifier_cell, cell_permit, cell_stores, calls, task_tool, task_params>>

\* lib.rs 444-506: check_model_loaded answers; when the model is loaded the
\* fields are extracted, the input is built and validated and
\* classify_enhanced is entered, all before the next await
GiModel(c) ==
    /\ task_pc[c] = "gi_model"
    /\ \E r \in {"err", "no", "yes"}, git \in DetectedGit :
          LET params == Unwrap(task_params[c])
          IN  CASE r = "err" -> Finish(c, ToolErr("{\"error\":\"Could not check model status. Ollama may have stopped. Run init_llm again.\"}"), <<>>)
                [] r = "no"  -> Finish(c, model_not_loaded, <<"model_not_loaded">>)
                [] r = "yes" ->
                     IF ~params.task.some
                     THEN Finish(c, ToolErr("Missing required field: task"), <<"model_loaded", "extract">>)
                     ELSE IF ~validate(instructions_input(params, git))
                     THEN Finish(c, ToolErr("Input validation failed"), <<"model_loaded", "extract", "validate">>)
                     ELSE Goto(c, "gi_classify", <<"model_loaded", "extract", "validate", "classify">>)
    /\ UNCHANGED <<core_vars, binary, state_lock, classifier_cell, cell_permit, cell_stores, calls, task_tool, task_params>>

\* lib.rs 506-518: classify_enhanced returns
GiClassified(c) ==
    /\ task_pc[c] = "gi_classify"
    /\ \/ Finish(c, ToolOk("instructions"), <<>>)
       \/ Finish(c, ToolErr("Classification failed"), <<>>)
    /\ UNCHANGED <<core_vars, binary, state_lock, classifier_cell, cell_permit, cell_stores, calls, task_tool, task_params>>

\* main.rs 126-130: serde_json::from_value and validate, on the way to the
\* second lock of the state
GrParse(c, events) ==
    LET params == Unwrap(task_params[c])
    IN  IF ~params.task.some
        THEN Finish(c, ToolErr("Invalid input"), events \o <<"extract">>)
        ELSE IF ~validate(instructions_input(params, None))
        THEN Finish(c, ToolErr("Input validation failed"), events \o <<"extract", "validate">>)
        ELSE Goto(c, "gr_lock", events \o <<"extract", "validate">>)

\* main.rs 83-87: ensure_initialized locks the state; with a classifier
\* present it returns and the handler goes on to parse the input, otherwise
\* initialize() is awaited with the lock held
GrEnsure(c) ==
    /\ task_pc[c] = "gr_ensure"
    /\ state_lock = 0
    /\ IF classifier_cell.some
       THEN /\ GrParse(c, <<"classifier_ready">>)
            /\ UNCHANGED state_lock
       ELSE /\ state_lock' = c
            /\ Goto(c, "gr_initializing", <<>>)
    /\ UNCHANGED <<core_vars, binary, classifier_cell, cell_permit, cell_stores, calls, task_tool, task_params>>

\* main.rs 88-97: initialize() ends; Ok stores the classifier, Err returns
\* through `?`; the guard is dropped on both ways
GrInitialized(c) ==
    /\ task_pc[c] = "gr_initializing"
    /\ state_lock' = 0
    /\ \E r \in InitializeOutcomes :
          IF r = "ok"
          THEN /\ classifier_cell' = Some(c)
               /\ cell_stores' = cell_stores + 1
               /\ GrParse(c, <<"classifier_ready">>)
          ELSE /\ UNCHANGED <<classifier_cell, cell_stores>>
               /\ Finish(c, ToolErr("Auto-initialization failed"), <<r>>)
    /\ UNCHANGED <<core_vars, binary, cell_permit, calls, task_tool, task_params>>

\* main.rs 132-141: lock the state again and await check_ollama_running
GrLock(c) ==
    /\ task_pc[c] = "gr_lock"
    /\ state_lock = 0
    /\ state_lock' = c
    /\ Goto(c, "gr_ollama", <<>>)
    /\ UNCHANGED <<core_vars, binary, classifier_cell, cell_permit, cell_stores, calls, task_tool, task_params>>

\* main.rs 137-175: one of the three checks answers; the guard lives to the
\* end of the handler
GrCheck(c, answers, next, passed, failed, reply) ==
    /\ \E r \in answers :
          CASE r = "err" -> /\ Finish(c, ToolErr("Failed to check"), <<>>)
                            /\ state_lock' = 0
            [] r = "no"  -> /\ Finish(c, ToolOk(reply), <<failed>>)
                            /\ state_lock' = 0
            [] r = "yes" -> /\ Goto(c, next, passed)
                            /\ UNCHANGED state_lock
    /\ UNCHANGED <<core_vars, binary, classifier_cell, cell_permit, cell_stores, calls, task_tool, task_params>>

\* main.rs 137-148: check_ollama_running, which is never an Err
GrOllama(c) ==
    /\ task_pc[c] = "gr_ollama"
    /\ GrCheck(c, {"no", "yes"}, "gr_model_exists", <<"ollama_running">>, "ollama_not_running", "{\"error\":\"Ollama is not started. Ask user if Ollama should be started.\"}")

\* main.rs 151-160: check_model_exists
GrModelExists(c) ==
    /\ task_pc[c] = "gr_model_exists"
    /\ GrCheck(c, {"err", "no", "yes"}, "gr_model_loaded", <<"model_exists">>, "model_missing", "{\"error\":\"Model has not been downloaded. Ask user if the model should be pulled.\"}")

\* main.rs 163-175: check_model_loaded, then classify is entered
GrModelLoaded(c) ==
    /\ task_pc[c] = "gr_model_loaded"
    /\ GrCheck(c, {"err", "no", "yes"}, "gr_classify", <<"model_loaded", "classify">>, "model_not_loaded", "{\"error\":\"Model is not loaded. Ask the user if the model should be loaded in Ollama.\"}")

\* main.rs 173-179: classify returns and the guard is dropped
GrClassified(c) ==
    /\ task_pc[c] = "gr_classify"
    /\ state_lock' = 0
    /\ \/ Finish(c, ToolOk("routing"), <<>>)
       \/ Finish(c, ToolErr("Classification failed"), <<>>)
    /\ UNCHANGED <<core_vars, binary, classifier_cell, cell_permit, cell_stores, calls, task_tool, task_params>>

\* the client takes the result of the call
TakeResult(c) ==
    /\ task_pc[c] = "done"
    /\ task_pc' = [task_pc EXCEPT ![c] = "idle"]
    /\ task_tool' = [task_tool EXCEPT ![c] = ""]
    /\ task_params' = [task_params EXCEPT ![c] = None]
    /\ task_trace' = [task_trace EXCEPT ![c] = <<>>]
    /\ task_result' = [task_result EXCEPT ![c] = None]
    /\ UNCHANGED <<core_vars, binary, state_lock, classifier_cell, cell_permit, cell_stores, calls>>

NextServer ==
    \E c \in Callers :
        \/ CallTool(c)
        \/ GiLock(c)
        \/ GiInit(c)
        \/ GiInitialized(c)
        \/ GiOllama(c)
        \/ GiModel(c)
        \/ GiClassified(c)
        \/ GrEnsure(c)
        \/ GrInitialized(c)
        \/ GrLock(c)
        \/ GrOllama(c)
        \/ GrModelExists(c)
        \/ GrModelLoaded(c)
        \/ GrClassified(c)
        \/ TakeResult(c)

SpecServer == InitServer /\ [][NextServer]_vars

ServerTypeOK ==
    /\ state_lock \in {0} \cup Callers
    /\ cell_permit \in {0} \cup Callers
    /\ calls \in 0..MaxCalls
    /\ cell_stores \in 0..MaxCalls

-----------------------------------------------------------------------------
(* Properties of the tool handlers (SpecServer) *)

\* caller c is inside classify or classify_enhanced
Classifying(c) == task_pc[c] \in {"gi_classify", "gr_classify"}

\* C24: requests are not serialized against each other: while a request is
\* being classified no caller holds the lock on the shared server state, so
\* a second request can be classified at the same time.
C24_NoLockWhileClassifying ==
    \A c \in Callers : Classifying(c) => state_lock = 0

\* two requests in classification at the same time
BothClassifying == \A c \in Callers : Classifying(c)

-----------------------------------------------------------------------------
(* types.rs: ClassificationInput::validate on inputs at and around its     *)
(* limits (SpecValidate)                                                    *)

\* n copies of a file path
Files(n, path) == [i \in 1..n |-> path]

LimitTexts == {"fix auth bug", Text10000, LongText}

LimitFileLists ==
    {Files(MAX_FILES_COUNT, "src/auth.ts"), Files(MAX_FILES_COUNT + 1, "src/auth.ts"),
     <<Path1000>>, <<"src/auth.ts", Path1001>>}

LimitGitContexts ==
    {GitContext(Branch200, Files(60, "src/auth.ts"), Files(40, "README.md")),
     GitContext("main", Files(60, "src/auth.ts"), Files(41, "README.md")),
     GitContext("main", Files(MAX_FILES_COUNT, "src/auth.ts"), <<>>),
     GitContext("main", <<>>, Files(MAX_FILES_COUNT + 1, "README.md")),
     GitContext(Branch201, <<>>, <<>>),
     GitContext("main", <<Path1000>>, <<Path1000>>),
     GitContext("main", <<Path1001>>, <<>>),
     GitContext("main", <<>>, <<"README.md", Path1001>>)}

LimitPaths == {None, Some(Path1000), Some(Path1001)}

ValidateInputs ==
    {ClassificationInput(t, i, op, af, gc, ap, rp, tp) :
        t  \in LimitTexts,
        i  \in {"general help", Text10000, LongText},
        op \in {None, Some(Text10000), Some(LongText)},
        af \in {None} \cup {Some(fs) : fs \in LimitFileLists},
        gc \in {None} \cup {Some(g) : g \in LimitGitContexts},
        ap \in LimitPaths, rp \in LimitPaths, tp \in LimitPaths}

InitValidate ==
    /\ binary = "lib"
    /\ ServerIdle
    /\ response = <<>>
    /\ pc = "validate"
    /\ mode = "none"
    /\ input \in ValidateInputs
    /\ cfg = StartupConfig
    /\ used = None
    /\ rule_based_agents = <<>>
    /\ llm_tags = <<>>
    /\ result = None
    /\ tag_calls = 0
    /\ tags_result = "none"
    /\ tree = AllOf(<<>>)
    /\ flat = None
    /\ detail = None

\* input.validate()
Validate ==
    /\ pc = "validate"
    /\ result' = Some([ok |-> validate(input)])
    /\ pc' = "validated"
    /\ UNCHANGED <<mode, input, cfg, used, rule_based_agents, llm_tags, tag_calls, tags_result, tree, flat, detail, response, server_vars>>

NextValidate == Validate

SpecValidate == InitValidate /\ [][NextValidate]_vars

\* the values of an optional field
Opt(o) == IF o.some THEN {Unwrap(o)} ELSE {}

\* the file paths a request carries
PathsOf(inp) ==
    UNION {Range(fs) : fs \in Opt(inp.associated_files)}
    \cup UNION {Range(g.changed_files) \cup Range(g.staged_files) : g \in Opt(inp.git_context)}

\* the limits as the claim lists them
LimitsHold(inp) ==
    /\ \A text \in {inp.task, inp.intent} \cup Opt(inp.original_prompt) : ByteLen(text) <= 10000
    /\ \A fs \in Opt(inp.associated_files) : Len(fs) <= 100
    /\ \A g \in Opt(inp.git_context) :
          /\ Len(g.changed_files \o g.staged_files) <= 100
          /\ ByteLen(g.branch) <= 200
    /\ \A path \in PathsOf(inp) : ByteLen(path) <= 1000
    /\ \A path \in Opt(inp.agent_config_path) \cup Opt(inp.rules_config_path)
                    \cup Opt(inp.llm_tags_path) : ByteLen(path) <= 1000

\* C25: validate returns Ok exactly when every limit holds: task, intent and
\* original_prompt of at most 10000 bytes, at most 100 associated files, at
\* most 100 changed plus staged files, file paths and override paths of at
\* most 1000 bytes, a branch name of at most 200 bytes.
C25_ValidateLimits ==
    pc = "validated" => (Unwrap(result).ok <=> LimitsHold(input))

\* a request with every field exactly at its limit is accepted
C25_Witness ==
    /\ pc = "validated"
    /\ Unwrap(result).ok
    /\ ByteLen(input.task) = 10000
    /\ ByteLen(input.intent) = 10000
    /\ input.original_prompt = Some(Text10000)
    /\ input.associated_files.some /\ Len(Unwrap(input.associated_files)) = 100
    /\ input.git_context.some
    /\ Len(Unwrap(input.git_context).changed_files) + Len(Unwrap(input.git_context).staged_files) = 100
    /\ \/ ByteLen(Unwrap(input.git_context).branch) = 200
       \/ Unwrap(input.git_context).staged_files = <<>>
    /\ input.agent_config_path = Some(Path1000)
    /\ input.rules_config_path = Some(Path1000)
    /\ input.llm_tags_path = Some(Path1000)

\* a request one file over the limit, everything else within it, is refused
OverLimitRefused ==
    /\ pc = "validated"
    /\ ~Unwrap(result).ok
    /\ ByteLen(input.task) = 10000
    /\ input.git_context.some
    /\ Len(Unwrap(input.git_context).changed_files) + Len(Unwrap(input.git_context).staged_files) = 101
    /\ input.associated_files = None
    /\ input.original_prompt = None
    /\ input.agent_config_path = None

-----------------------------------------------------------------------------
(* classifier.rs: is_high_confidence on its own (SpecConfidence) *)

ConfidenceIntents == IntentTexts \cup {"recommit all", "Open PULL_REQUEST", "pull request"}

ConfidenceAgents == {<<>>, <<"ts-reviewer">>, <<"docs-writer", "security-auditor">>}

ConfidenceInputs ==
    {ClassificationInput(t, i, None, af, gc, None, None, None) :
        t  \in TaskTexts,
        i  \in ConfidenceIntents,
        af \in {None, Some(<<>>), Some(<<"README.md">>)},
        gc \in {None} \cup
               {Some(GitContext(b, ch, st)) :
                   b  \in BranchNames,
                   ch \in {<<>>, <<"src/auth.ts">>},
                   st \in {<<>>, <<"README.md">>}}}

InitConfidence ==
    /\ binary = "lib"
    /\ ServerIdle
    /\ response = <<>>
    /\ pc = "confidence"
    /\ mode = "none"
    /\ input \in ConfidenceInputs
    /\ cfg = StartupConfig
    /\ used = None
    /\ rule_based_agents \in ConfidenceAgents
    /\ llm_tags = <<>>
    /\ result = None
    /\ tag_calls = 0
    /\ tags_result = "none"
    /\ tree = AllOf(<<>>)
    /\ flat = None
    /\ detail = None

\* self.is_high_confidence(&rule_based_agents, input)
Confidence ==
    /\ pc = "confidence"
    /\ flat' = Some(is_high_confidence(rule_based_agents, input))
    /\ pc' = "confidence_done"
    /\ UNCHANGED <<mode, input, cfg, used, rule_based_agents, llm_tags, result, tag_calls, tags_result, tree, detail, response, server_vars>>

NextConfidence == Confidence

SpecConfidence == InitConfidence /\ [][NextConfidence]_vars

\* the intents of the model whose lower-cased text contains "commit" or
\* "pull_request"
LifecycleIntents == {"Review before COMMIT", "recommit all", "open pull_request", "Open PULL_REQUEST"}

\* the three things the claim lets the heuristic depend on
Deciders(inp) ==
    <<inp.associated_files.some /\ Unwrap(inp.associated_files) # <<>>,
      inp.git_context.some /\ Unwrap(inp.git_context).changed_files # <<>>,
      inp.intent>>

\* C26: is_high_confidence is true iff associated_files is present and
\* non-empty, or git_context is present with non-empty changed_files, or the
\* lower-cased intent contains "commit" or "pull_request"; requests that
\* agree on these three get the same answer whatever the matched agents, the
\* task, the branch and the staged files.
C26_ConfidenceHeuristic ==
    pc = "confidence_done" =>
        /\ Unwrap(flat) <=> \/ Deciders(input)[1]
                            \/ Deciders(input)[2]
                            \/ input.intent \in LifecycleIntents
        /\ \A inp2 \in ConfidenceInputs, agents2 \in ConfidenceAgents :
              Deciders(inp2) = Deciders(input)
                 => is_high_confidence(agents2, inp2) = Unwrap(flat)

\* staged files alone, with agents matched and an intent that spells
\* "pull request" with a space, leave the confidence low
C26_Witness ==
    /\ pc = "confidence_done"
    /\ rule_based_agents # <<>>
    /\ input.git_context.some
    /\ Unwrap(input.git_context).changed_files = <<>>
    /\ Unwrap(input.git_context).staged_files # <<>>
    /\ ~Deciders(input)[1]
    /\ input.intent = "pull request"
    /\ ~Unwrap(flat)

\* the replies that are an Ok tool result carrying an error JSON
ErrorJsons ==
    {"{\"error\":\"Ollama is not running. Run init_llm first to start Ollama and load the model.\"}",
     "{\"error\":\"Model not loaded into memory. Run init_llm to load it.\"}"}

\* the stages of a get_instructions call that reaches classification
FullRun == <<"classifier_ready", "ollama_running", "model_loaded", "extract", "validate", "classify">>

\* C27: get_instructions classifies only after the classifier is initialised,
\* Ollama was reported running and the model was reported loaded, in this
\* order; when Ollama is not running or the model is not loaded it returns an
\* Ok tool result that carries an error JSON and has neither extracted nor
\* validated the input nor classified; a tool name the server does not know
\* yields an error.
C27_ChecksBeforeClassification ==
    \A c \in Callers :
        LET tr == task_trace[c]
        IN  /\ task_tool[c] = "get_instructions" =>
                /\ Contains(tr, "classify") => tr = FullRun
                /\ task_pc[c] = "gi_classify" => classifier_cell.some /\ tr = FullRun
                /\ \A k \in 1..Len(tr) : tr[k] = FullRun[k] \/ (k = Len(tr) /\ task_pc[c] = "done")
                /\ (Contains(tr, "ollama_not_running") \/ Contains(tr, "model_not_loaded")) =>
                      /\ task_pc[c] = "done"
                      /\ Unwrap(task_result[c]).ok
                      /\ Unwrap(task_result[c]).text \in ErrorJsons
                      /\ ~Contains(tr, "extract")
                      /\ ~Contains(tr, "validate")
                      /\ ~Contains(tr, "classify")
            /\ (task_pc[c] = "done" /\ task_tool[c] \notin Tools(binary)) =>
                /\ ~Unwrap(task_result[c]).ok
                /\ tr = <<>>

\* caller c is inside the initialiser of the classifier
Initializing(c) == task_pc[c] \in {"gi_initializing", "gr_initializing"}

\* C28: under any interleaving of concurrent calls at most one Classifier is
\* ever stored in the shared cell and at most one caller at a time runs the
\* initialiser, and only while the cell is empty; a stored classifier is
\* never replaced; the initialiser either stores its classifier or, when it
\* fails, leaves the cell empty and ends that call with an error.
C28_InitialisedOnce ==
    /\ [](/\ cell_stores <= 1
          /\ classifier_cell.some <=> cell_stores = 1
          /\ \A c, d \in Callers : (Initializing(c) /\ Initializing(d)) => c = d
          /\ \A c \in Callers : Initializing(c) => ~classifier_cell.some)
    /\ [][/\ classifier_cell.some => classifier_cell' = classifier_cell
          /\ \A c \in Callers :
                (Initializing(c) /\ task_pc'[c] # task_pc[c]) =>
                    \/ classifier_cell' = Some(c)
                    \/ /\ classifier_cell' = None
                       /\ task_pc'[c] = "done"
                       /\ ~Unwrap(task_result'[c]).ok]_vars

\* a call whose initialisation failed, and a later call by the other caller
\* that ran the initialiser again and stored the classifier
C28_Witness ==
    \E c, d \in Callers :
        /\ binary = "lib"
        /\ task_pc[d] = "done"
        /\ task_trace[d] = <<"init_failed">>
        /\ ~Unwrap(task_result[d]).ok
        /\ classifier_cell = Some(c)
        /\ task_pc[c] = "gi_classify"

-----------------------------------------------------------------------------
(* model_manager.rs: parse_tag_list on its own (SpecTags).  No load path    *)
(* calls LlmTagConfig::validate, so the tag names of a configuration may    *)
(* repeat and may be empty.                                                 *)

MaxTags == 3

TagNames == {"security", "testing", "docs", "", "0"}

TagConfigs == SeqsUpTo(TagNames, MaxTags)

\* replies of the model: numbers, names, both, neither
Replies ==
    Responses \cup
    {<<Num(3)>>, <<Num(1), Word(","), Num(1)>>, <<Num(0), Word(","), Num(2)>>,
     <<Num(7), Word(" security")>>, <<Word("insecurity")>>,
     <<Word("testing"), Word(", "), Word("Security")>>}

InitTags ==
    /\ binary = "lib"
    /\ ServerIdle
    /\ pc = "parse_tag_list"
    /\ mode = "none"
    /\ input = dummy_input
    /\ cfg \in {[agents |-> <<>>, tags |-> tc, rules |-> <<>>] : tc \in TagConfigs}
    /\ used = None
    /\ rule_based_agents = <<>>
    /\ llm_tags = <<>>
    /\ result = None
    /\ tag_calls = 0
    /\ tags_result = "none"
    /\ tree = AllOf(<<>>)
    /\ flat = None
    /\ detail = None
    /\ response \in Replies

\* self.parse_tag_list(&response, tag_config)
ParseTagList ==
    /\ pc = "parse_tag_list"
    /\ llm_tags' = parse_tag_list(response, cfg.tags)
    /\ tags_result' = "ok"
    /\ pc' = "parsed"
    /\ UNCHANGED <<mode, input, cfg, used, rule_based_agents, result, tag_calls, tree, flat, detail, response, server_vars>>

NextTags == ParseTagList

SpecTags == InitTags /\ [][NextTags]_vars

\* the positions of the reply that hold a number in 1..number of tags
ValidNumbers == {k \in 1..Len(response) : response[k].digits /\ response[k].n \in 1..Len(cfg.tags)}

\* C29: the tag list parsed from a reply holds only names of configured tags
\* and no name twice; it is empty for the empty reply and for the reply "0";
\* when the reply holds a number in range, the list is the tags at the
\* numbers in range, read as 1-based indexes, and names written in the reply
\* are not used.
C29_ParsedTagList ==
    pc = "parsed" =>
        /\ Range(llm_tags) \subseteq Range(cfg.tags)
        /\ NoDuplicates(llm_tags)
        /\ response \in {<<>>, <<Num(0)>>} => llm_tags = <<>>
        /\ ValidNumbers # {} =>
              Range(llm_tags) = {cfg.tags[response[k].n] : k \in ValidNumbers}

-----------------------------------------------------------------------------
(* Agreement of the two evaluators (SpecEval) *)

\* C30: for every condition tree, request and tag set, evaluate_conditions
\* reports a match exactly when evaluate_rule_with_details returns match
\* info, AnyOf and AllOf nodes without children included.
C30_EvaluatorsAgree ==
    pc = "eval_done" => (Unwrap(flat) <=> Unwrap(detail).m # NoMatch)

=============================================================================
